---- MODULE Spec2Model ----
(***************************************************************************)
(* State-machine model of QUICNetVConnection                                *)
(* (iocore/net/QUICNetVConnection.cc): the per-connection lifecycle,        *)
(* its timers, the receive loops and the send paths.                        *)
(*                                                                         *)
(* The connection object is viewed as a record (St); every method of the   *)
(* class is an operator from a record to a record (or to a record plus a   *)
(* return value), composed the way the C++ calls nest.  An event handler   *)
(* is an action that applies the handler to St.  The receive loops and the *)
(* send loop advance one iteration per step (pc names the position), and   *)
(* no other event is delivered while a handler is running.                 *)
(***************************************************************************)
EXTENDS Integers, Sequences, FiniteSets, TLC

(***************************************************************************)
(* Bounds of the model.                                                     *)
(***************************************************************************)
\* datagrams the peer sends over the lifetime of the connection
MaxPackets == 2
\* frames carried by one received packet
MaxFrames == 1
\* datagrams the congestion controller admits over the lifetime
MaxDatagrams == 2
\* largest MAX_DATA value a peer advertises
MaxData == 2
\* values of the retransmission timeout reported by the loss detector
MaxRto == 2
\* connection ids a peer issues
MaxCid == 1
\* datagrams the peer sends to a connection that is closing (ClosingSpec)
MaxClosingPackets == 8
\* datagrams the congestion controller admits over the lifetime (BurstSpec)
MaxBurst == 11
\* frames the stream manager has for one packet (FrameSpec)
MaxStreamFrames == 9
\* datagrams a peer that migrates twice sends (MigrationSpec)
MaxMigrationPackets == 3

(***************************************************************************)
(* Program constants.                                                       *)
(***************************************************************************)
PACKET_PER_EVENT == 32
MAX_CONSECUTIVE_STREAMS == 8
IPV4_HEADER_SIZE == 20
IPV6_HEADER_SIZE == 40
UDP_HEADER_SIZE == 8
MAX_PACKET_OVERHEAD == 62
MAX_STREAM_FRAME_OVERHEAD == 24
MINIMUM_INITIAL_PACKET_SIZE == 1200
\* stand-in for 2^32, the modulus of uint32_t: larger than every size the
\* model can produce
UINT32 == 2000000000
MAX_PACKETS_WITHOUT_SRC_ADDR_VARIDATION == 3
STATE_CLOSING_MAX_SEND_PKT_NUM == 8
STATE_CLOSING_MAX_RECV_PKT_WIND == 2 ^ STATE_CLOSING_MAX_SEND_PKT_NUM
\* stand-in for UINT64_MAX, the limit both flow controllers are created with:
\* larger than every limit the model can produce
UINT64_MAX == 1000000
\* INITIAL_MAX_DATA of the local and of the remote transport parameters
LocalInitialMaxData == 1
RemoteInitialMaxData == 1

(***************************************************************************)
(* Values.                                                                  *)
(***************************************************************************)
StateHandlers == {"state_pre_handshake", "state_handshake", "state_connection_established",
                  "state_connection_closing", "state_connection_draining",
                  "state_connection_closed"}

\* QUICConnectionErrorUPtr: nullptr or an error (class, code)
nullptr == [cls |-> "NONE", code |-> "NONE"]
TransportError(code) == [cls |-> "TRANSPORT", code |-> code]
ApplicationError(code) == [cls |-> "APPLICATION", code |-> code]

\* errors the application hands to close()
CloseErrors == {ApplicationError("0x1")}

\* connection ids: ZERO, the ids the peer issues in NEW_CONNECTION_ID frames
\* (1 .. MaxCid), the local id drawn at init, an alternative local id issued by
\* the alt-connection manager, and the peer's first id
ZERO == 0
PeerAltCids == 1 .. MaxCid
LocalCid == 10
LocalAltCid == 11
PeerCid == 20
OriginalCid == 30

\* QUIC_ENCRYPTION_LEVELS, in the order the send loop visits them
QUIC_ENCRYPTION_LEVELS == <<"INITIAL", "ZERO_RTT", "HANDSHAKE", "ONE_RTT">>

\* QUIC_PN_SPACES, and the space of an encryption level (QUICTypeUtil::pn_space_index)
QUIC_PN_SPACES == {"Initial", "Handshake", "ApplicationData"}
pn_space_index(level) ==
    CASE level = "INITIAL" -> "Initial"
      [] level = "HANDSHAKE" -> "Handshake"
      [] OTHER -> "ApplicationData"

\* the number of a packet that was not built
NoNumber == [space |-> "NONE", number |-> -1]
\* no close frame was handled; state: the handler the frame met
NoFrame == [state |-> "NONE", error |-> [cls |-> "NONE", code |-> "NONE"]]
\* no datagram is being filled
NoPayload == [len |-> 0, pmtu |-> 0, ip_family |-> "PF_INET", written |-> 0, level |-> 1,
              packets |-> <<>>]

\* an Event handle held by the connection: no event, an event waiting in the
\* scheduler, or a handle whose event was delivered without the handle being
\* cleared
TimerStates == {"null", "pending", "stale"}

VARIABLES
    \* ---- QUICNetVConnection fields
    handler,                  \* Continuation::handler
    netvc_context,            \* NET_VCONNECTION_IN (server) / NET_VCONNECTION_OUT (client)
    connection_error,         \* _connection_error
    the_final_packet,         \* _the_final_packet is built
    packet_write_ready,       \* _packet_write_ready
    closing_timeout,          \* _closing_timeout
    closing_timeout_interval, \* interval the pending CLOSING_TIMEOUT was scheduled with
    path_validation_timeout,  \* _path_validation_timeout
    closed_event,             \* _closed_event
    application_started,      \* _application_started
    src_addr_verified,        \* _src_addr_verified
    handshake_packets_sent,   \* _handshake_packets_sent
    recv_packet_count,        \* _state_closing_recv_packet_count
    recv_packet_window,       \* _state_closing_recv_packet_window
    in_active_queue,          \* membership of the NetHandler's active queue
    inactivity_timeout,       \* inactivity timeout armed (set_inactivity_timeout(t), t > 0)
    alt_con_manager,          \* _alt_con_manager is installed
    connection_migration_initiated, \* _connection_migration_initiated
    remote_alt_cids,          \* _remote_alt_cids, front first
    quic_connection_id,       \* _quic_connection_id (local CID)
    peer_quic_connection_id,  \* _peer_quic_connection_id
    local_limit,              \* _local_flow_controller limit
    remote_limit,             \* _remote_flow_controller limit
    original_quic_connection_id, \* _original_quic_connection_id
    ctable,                   \* the entries of _ctable that point at this connection
    udp_payload,              \* the datagram _state_common_send_packet is filling
    draining_error,           \* the error last handed to _switch_to_draining_state
    close_frame,              \* the first close frame handle_frame got since the last event
    local_offset,             \* _local_flow_controller current_offset
    remote_offset,            \* _remote_flow_controller current_offset
    final_pn,                 \* packet-number space and number of _the_final_packet
    \* ---- QUICPacketFactory
    pn,                       \* next packet number of each packet-number space
    \* ---- collaborators
    hs_completed,             \* QUICHandshake::is_completed()
    hs_remote_tp,             \* QUICHandshake::has_remote_tp()
    hs_version_negotiated,    \* QUICHandshake::is_version_negotiated()
    endpoint,                 \* SSLNextProtocolSet::findEndpoint finds the negotiated protocol
    cm_exercise,              \* QUICConfig cm_exercise_enabled
    stream_fc_initialized,    \* QUICStreamManager::init_flow_control_params was called
    path_validator,           \* QUICPathValidator: "idle", "validating", "validated"
    rto,                      \* QUICLossDetector::current_rto_period()
    recv_queue,               \* _packet_recv_queue.size()
    \* ---- environment budgets
    arrivals,                 \* datagrams the peer has sent so far
    datagrams,                \* datagrams the congestion controller has admitted so far
    \* ---- control
    pc,                       \* position of the running handler, "idle" between events
    error,                    \* local `error` of the running receive loop
    packet_count,             \* local `packet_count` of the running send loop
    \* ---- observations
    op,                       \* the operation the last step performed
    tx,                       \* packets handed to the UDP layer by the last step
    final_tx,                 \* transmissions of the final (CLOSE) packet so far
    app_events,               \* NET_EVENT_ACCEPT / NET_EVENT_OPEN notifications delivered
    chip,                     \* last call of _complete_handshake_if_possible in the last step
    left_open,                \* SET_HANDLER(closing | draining | closed) was executed
    teardowns,                \* SHUTDOWN teardowns run
    assert_failed,            \* an ink_assert evaluated to false (aborts a debug build)
    out,                      \* packets the last step passed to on_packet_sent or put on the wire
    ld_last,                  \* per space, the largest number passed to on_packet_sent so far
    wire_last,                \* per space, the largest number put on the wire so far
    resets,                   \* the collaborators the last step has reset or restarted
    stream_frames_sent,       \* _stream_frames_sent
    built,                    \* the packet the last call of _packetize_frames built
    mutexes                   \* packet, frame: how often the event thread holds the
                              \* transmitter mutex; frame_locked: the last step took the
                              \* frame mutex; misordered: the last step took the frame
                              \* mutex without the packet mutex, or the packet mutex
                              \* holding the frame mutex

vars == <<handler, netvc_context, connection_error, the_final_packet, packet_write_ready,
          closing_timeout, closing_timeout_interval, path_validation_timeout, closed_event,
          application_started, src_addr_verified, handshake_packets_sent, recv_packet_count,
          recv_packet_window, in_active_queue, inactivity_timeout, alt_con_manager,
          connection_migration_initiated, remote_alt_cids, quic_connection_id, peer_quic_connection_id, local_limit, remote_limit, hs_completed, hs_remote_tp,
          hs_version_negotiated, endpoint, cm_exercise, stream_fc_initialized, path_validator,
          rto, recv_queue, arrivals, datagrams, pc, error, packet_count, op, tx,
          final_tx, app_events, chip, left_open, teardowns, assert_failed,
          final_pn, pn, out, ld_last, wire_last, local_offset, remote_offset,
          original_quic_connection_id, ctable, udp_payload,
          draining_error, close_frame, resets, stream_frames_sent, built, mutexes>>

\* the connection and its collaborators as one record
St == [handler |-> handler, netvc_context |-> netvc_context,
       connection_error |-> connection_error, the_final_packet |-> the_final_packet,
       packet_write_ready |-> packet_write_ready, closing_timeout |-> closing_timeout,
       closing_timeout_interval |-> closing_timeout_interval,
       path_validation_timeout |-> path_validation_timeout, closed_event |-> closed_event,
       application_started |-> application_started, src_addr_verified |-> src_addr_verified,
       handshake_packets_sent |-> handshake_packets_sent,
       recv_packet_count |-> recv_packet_count, recv_packet_window |-> recv_packet_window,
       in_active_queue |-> in_active_queue, inactivity_timeout |-> inactivity_timeout,
       alt_con_manager |-> alt_con_manager, remote_alt_cids |-> remote_alt_cids,
       connection_migration_initiated |-> connection_migration_initiated,
       quic_connection_id |-> quic_connection_id,
       peer_quic_connection_id |-> peer_quic_connection_id,
       local_limit |-> local_limit, remote_limit |-> remote_limit,
       hs_completed |-> hs_completed, hs_remote_tp |-> hs_remote_tp,
       hs_version_negotiated |-> hs_version_negotiated, endpoint |-> endpoint,
       cm_exercise |-> cm_exercise, stream_fc_initialized |-> stream_fc_initialized,
       path_validator |-> path_validator, rto |-> rto, recv_queue |-> recv_queue,
       arrivals |-> arrivals, datagrams |-> datagrams, pc |-> pc,
       error |-> error, packet_count |-> packet_count, op |-> op,
       tx |-> tx, final_tx |-> final_tx, app_events |-> app_events, chip |-> chip,
       left_open |-> left_open, teardowns |-> teardowns, assert_failed |-> assert_failed,
       final_pn |-> final_pn, pn |-> pn, out |-> out, ld_last |-> ld_last,
       wire_last |-> wire_last, local_offset |-> local_offset,
       remote_offset |-> remote_offset,
       original_quic_connection_id |-> original_quic_connection_id, ctable |-> ctable,
       udp_payload |-> udp_payload, draining_error |-> draining_error,
       close_frame |-> close_frame, resets |-> resets,
       stream_frames_sent |-> stream_frames_sent, built |-> built, mutexes |-> mutexes]

\* the next state is the record s (evaluated once, as r)
Becomes(s) ==
    \E r \in {s} :
        /\ handler' = r.handler /\ netvc_context' = r.netvc_context
        /\ connection_error' = r.connection_error /\ the_final_packet' = r.the_final_packet
        /\ packet_write_ready' = r.packet_write_ready /\ closing_timeout' = r.closing_timeout
        /\ closing_timeout_interval' = r.closing_timeout_interval
        /\ path_validation_timeout' = r.path_validation_timeout /\ closed_event' = r.closed_event
        /\ application_started' = r.application_started /\ src_addr_verified' = r.src_addr_verified
        /\ handshake_packets_sent' = r.handshake_packets_sent
        /\ recv_packet_count' = r.recv_packet_count /\ recv_packet_window' = r.recv_packet_window
        /\ in_active_queue' = r.in_active_queue /\ inactivity_timeout' = r.inactivity_timeout
        /\ alt_con_manager' = r.alt_con_manager /\ remote_alt_cids' = r.remote_alt_cids
        /\ connection_migration_initiated' = r.connection_migration_initiated
        /\ quic_connection_id' = r.quic_connection_id
        /\ peer_quic_connection_id' = r.peer_quic_connection_id
        /\ local_limit' = r.local_limit /\ remote_limit' = r.remote_limit
        /\ hs_completed' = r.hs_completed /\ hs_remote_tp' = r.hs_remote_tp
        /\ hs_version_negotiated' = r.hs_version_negotiated /\ endpoint' = r.endpoint
        /\ cm_exercise' = r.cm_exercise /\ stream_fc_initialized' = r.stream_fc_initialized
        /\ path_validator' = r.path_validator /\ rto' = r.rto /\ recv_queue' = r.recv_queue
        /\ arrivals' = r.arrivals /\ datagrams' = r.datagrams /\ pc' = r.pc
        /\ error' = r.error /\ packet_count' = r.packet_count /\ op' = r.op
        /\ tx' = r.tx /\ final_tx' = r.final_tx /\ app_events' = r.app_events /\ chip' = r.chip
        /\ left_open' = r.left_open /\ teardowns' = r.teardowns
        /\ assert_failed' = r.assert_failed
        /\ final_pn' = r.final_pn /\ pn' = r.pn /\ out' = r.out
        /\ ld_last' = r.ld_last /\ wire_last' = r.wire_last
        /\ local_offset' = r.local_offset /\ remote_offset' = r.remote_offset
        /\ original_quic_connection_id' = r.original_quic_connection_id
        /\ ctable' = r.ctable
        /\ udp_payload' = r.udp_payload
        /\ draining_error' = r.draining_error
        /\ close_frame' = r.close_frame
        /\ resets' = r.resets
        /\ stream_frames_sent' = r.stream_frames_sent /\ built' = r.built
        /\ mutexes' = r.mutexes

\* ink_assert(cond): a debug build aborts when cond is false, a release build goes on
ink_assert(s, cond) == IF cond THEN s ELSE [s EXCEPT !.assert_failed = TRUE]

\* SET_HANDLER
SET_HANDLER(s, h) ==
    [s EXCEPT !.handler = h,
              !.left_open = @ \/ h \in {"state_connection_closing", "state_connection_draining",
                                        "state_connection_closed"}]

(***************************************************************************)
(* The transmitter mutexes ("packet": _packet_transmitter_mutex, "frame":   *)
(* _frame_transmitter_mutex).  A ProxyMutex may be taken again by the       *)
(* thread that holds it.                                                    *)
(***************************************************************************)
\* SCOPED_MUTEX_LOCK(lock, _packet_transmitter_mutex, this_ethread()) of a scope
\* that calls functions which take a mutex
SCOPED_MUTEX_LOCK(s) ==
    [s EXCEPT !.mutexes = [@ EXCEPT !.packet = @ + 1,
                                    !.misordered = @ \/ s.mutexes.frame > 0]]

\* the end of that scope
unlock(s) == [s EXCEPT !.mutexes.packet = @ - 1]

\* faulty variant: the frame-transmitter mutex first
transmitter_locks_frame_first(m) ==
    [m EXCEPT !.frame_locked = TRUE, !.misordered = @ \/ m.packet = 0]

\* the two locks that open _packetize_frames and _packetize_closing_frame, the
\* packet-transmitter mutex first; the two functions call nothing which takes
\* a mutex, and both mutexes are released when the function returns
transmitter_locks(m) ==
    [m EXCEPT !.frame_locked = TRUE, !.misordered = @ \/ m.frame > 0]

(***************************************************************************)
(* Event handles.  The three functions below take the packet-transmitter    *)
(* mutex for their own scope and call nothing which takes a mutex.          *)
(***************************************************************************)
_schedule_packet_write_ready(s) ==
    IF s.packet_write_ready = "null" THEN [s EXCEPT !.packet_write_ready = "pending"] ELSE s

_unschedule_packet_write_ready(s) ==
    IF s.packet_write_ready # "null" THEN [s EXCEPT !.packet_write_ready = "null"] ELSE s

\* data is the state of the handle whose event is being delivered
_close_packet_write_ready(s, data) ==
    [ink_assert(s, s.packet_write_ready = data) EXCEPT !.packet_write_ready = "null"]

_schedule_closing_timeout(s, interval) ==
    IF s.closing_timeout = "null"
    THEN [s EXCEPT !.closing_timeout = "pending", !.closing_timeout_interval = interval]
    ELSE s

_unschedule_closing_timeout(s) ==
    IF s.closing_timeout # "null"
    THEN [s EXCEPT !.closing_timeout = "null", !.closing_timeout_interval = 0]
    ELSE s

_close_closing_timeout(s, data) ==
    [ink_assert(s, s.closing_timeout = data) EXCEPT !.closing_timeout = "null",
                                                     !.closing_timeout_interval = 0]

_schedule_closed_event(s) ==
    IF s.closed_event = "null" THEN [s EXCEPT !.closed_event = "pending"] ELSE s

_close_closed_event(s, data) ==
    [ink_assert(s, s.closed_event = data) EXCEPT !.closed_event = "null"]

_schedule_path_validation_timeout(s, interval) ==
    IF s.path_validation_timeout = "null"
    THEN [s EXCEPT !.path_validation_timeout = "pending"]
    ELSE s

_unschedule_path_validation_timeout(s) ==
    IF s.path_validation_timeout # "null"
    THEN [s EXCEPT !.path_validation_timeout = "null"]
    ELSE s

_close_path_validation_timeout(s, data) ==
    [ink_assert(s, s.path_validation_timeout = data) EXCEPT !.path_validation_timeout = "null"]

(***************************************************************************)
(* Flow controllers (QUICFlowController, declared outside this file).       *)
(***************************************************************************)
\* QUICFlowController::set_limit
set_limit(limit, value) == value

\* QUICFlowController::forward_limit: the limit only moves forward
forward_limit(limit, value) == IF limit > value THEN limit ELSE value

\* QUICFlowController::update: the offset moves forward to `offset` unless that
\* exceeds the limit; r.offset the offset after the call, r.ret the return value
update(current, limit, offset) ==
    IF current <= offset
    THEN IF offset > limit THEN [offset |-> current, ret |-> 1]
         ELSE [offset |-> offset, ret |-> 0]
    ELSE [offset |-> current, ret |-> 0]

\* QUICFlowController::credit, an unsigned difference
credit(limit, offset) == IF limit >= offset THEN limit - offset ELSE UINT64_MAX

_init_flow_control_params(s) ==
    [s EXCEPT !.stream_fc_initialized = TRUE,
              !.local_limit = set_limit(@, LocalInitialMaxData),
              !.remote_limit = set_limit(@, IF s.hs_remote_tp # "null"
                                            THEN RemoteInitialMaxData ELSE 0)]

(***************************************************************************)
(* Handshake completion, application start, state switches.                 *)
(***************************************************************************)
RECURSIVE _complete_handshake_if_possible(_)
RECURSIVE _start_application(_)
RECURSIVE _handle_error(_, _)
RECURSIVE close(_, _)
RECURSIVE _switch_to_closing_state(_, _)

\* the return value is r.ret, the connection after the call r.st
_complete_handshake_if_possible(s) ==
    LET called(t, ret) ==
            [st |-> [t EXCEPT !.chip = [handler |-> s.handler, completed |-> s.hs_completed,
                                        remote_tp |-> s.hs_remote_tp # "null", ret |-> ret]],
             ret |-> ret]
    IN  IF s.handler # "state_handshake" THEN called(s, 0)
        ELSE IF ~s.hs_completed THEN called(s, -1)
        ELSE IF s.netvc_context = "OUT" /\ s.hs_remote_tp = "null" THEN called(s, -1)
        ELSE called(_start_application(_init_flow_control_params(s)), 0)

\* faulty variant: the application is notified at every call
_start_application_at_every_call(s) ==
    LET s1 == [s EXCEPT !.application_started = TRUE]
    IN  IF s1.netvc_context = "IN"
        THEN IF ~s1.endpoint
             THEN IF s.application_started THEN s1
                  ELSE _handle_error(s1, TransportError("VERSION_NEGOTIATION_ERROR"))
             ELSE [s1 EXCEPT !.app_events = Append(@, "NET_EVENT_ACCEPT")]
        ELSE [s1 EXCEPT !.app_events = Append(@, "NET_EVENT_OPEN")]

_start_application(s) ==
    IF ~s.application_started
    THEN LET s1 == [s EXCEPT !.application_started = TRUE]
         IN  IF s1.netvc_context = "IN"
             THEN IF ~s1.endpoint
                  THEN _handle_error(s1, TransportError("VERSION_NEGOTIATION_ERROR"))
                  ELSE [s1 EXCEPT !.app_events = Append(@, "NET_EVENT_ACCEPT")]
             ELSE [s1 EXCEPT !.app_events = Append(@, "NET_EVENT_OPEN")]
    ELSE s

_handle_error(s, e) == close(s, e)

\* faulty variant: close() without the test of the state
close_whatever_the_state(s, e) == _switch_to_closing_state(s, e)

close(s, e) ==
    IF s.handler = "state_connection_closed" \/ s.handler = "state_connection_closing"
    THEN s
    ELSE _switch_to_closing_state(s, e)

\* new QUICAltConnectionManager(this, *_ctable): the manager binds the
\* alternative id it issues in the table
new_QUICAltConnectionManager(s) ==
    [s EXCEPT !.alt_con_manager = TRUE,
              !.ctable = IF s.netvc_context = "IN" THEN @ \cup {LocalAltCid} ELSE @]

\* QUICAltConnectionManager::invalidate_alt_connections
invalidate_alt_connections(s) == [s EXCEPT !.ctable = @ \ {LocalAltCid}]

\* QUICNetVConnection::remove_connection_ids
\* (_ctable is set for incoming connections only)
remove_connection_ids(s) ==
    LET s1 == IF s.netvc_context = "IN"
              THEN [s EXCEPT !.ctable = @ \ {s.original_quic_connection_id,
                                             s.quic_connection_id}]
              ELSE s
    IN  IF s1.alt_con_manager THEN invalidate_alt_connections(s1) ELSE s1

\* QUICConnectionId::randomize, as a fresh id
_rerandomize_original_cid(s) == [s EXCEPT !.original_quic_connection_id = @ + 1]

_switch_to_handshake_state(s) == SET_HANDLER(s, "state_handshake")

\* remote_tp->contains(DISABLE_MIGRATION) dereferences a null pointer when the
\* handshake engine holds no remote transport parameters: the process dies
_switch_to_established_state(s) ==
    LET r == _complete_handshake_if_possible(s)
    IN  IF r.ret = 0
        THEN LET s1 == SET_HANDLER(r.st, "state_connection_established")
             IN  IF s1.netvc_context = "IN"
                 THEN new_QUICAltConnectionManager(s1)
                 ELSE IF ~s1.cm_exercise THEN s1
                 ELSE IF s1.hs_remote_tp = "null" THEN [s1 EXCEPT !.pc = "crashed"]
                 ELSE IF s1.hs_remote_tp # "tp_disable_migration"
                      THEN new_QUICAltConnectionManager(s1)
                      ELSE s1
        ELSE ink_assert(r.st, FALSE)

_switch_to_closing_state(s, e) ==
    LET s1 == _complete_handshake_if_possible(s).st
        s2 == _schedule_packet_write_ready([s1 EXCEPT !.connection_error = e])
        s3 == [s2 EXCEPT !.in_active_queue = FALSE, !.inactivity_timeout = FALSE]
        s4 == SET_HANDLER(s3, "state_connection_closing")
    IN  _schedule_closing_timeout(s4, 3 * s3.rto)

_switch_to_draining_state(s, e) ==
    LET s1 == _complete_handshake_if_possible(s).st
        s2 == [s1 EXCEPT !.in_active_queue = FALSE, !.inactivity_timeout = FALSE,
                         !.draining_error = e]
        s3 == SET_HANDLER(s2, "state_connection_draining")
    IN  _schedule_closing_timeout(s3, 3 * s2.rto)

_switch_to_close_state(s) ==
    LET s1 == _unschedule_path_validation_timeout(_unschedule_closing_timeout(s))
        s2 == _complete_handshake_if_possible(s1).st
    IN  _schedule_closed_event(SET_HANDLER(s2, "state_connection_closed"))

_handle_idle_timeout(s) ==
    _switch_to_draining_state([s EXCEPT !.in_active_queue = FALSE], TransportError("NO_ERROR"))

_validate_new_path(s) ==
    _schedule_path_validation_timeout([s EXCEPT !.path_validator = "validating"], 3 * s.rto)

\* faulty variant: the timeout closes the connection whatever the validator reports
_handle_path_validation_timeout_unconditional(s, data) ==
    _switch_to_close_state(_close_path_validation_timeout(s, data))

_handle_path_validation_timeout(s, data) ==
    LET s1 == _close_path_validation_timeout(s, data)
    IN  IF s1.path_validator # "validated" THEN _switch_to_close_state(s1) ELSE s1

(***************************************************************************)
(* Received frames.                                                         *)
(***************************************************************************)
Frame(type, arg) == [type |-> type, arg |-> arg]

\* the frames a peer can put into a packet.  CRYPTO carries what the handshake
\* engine learns from it: the remote transport parameters it delivers ("null":
\* none) and whether it completes the handshake.  ACK carries the RTO the loss
\* detector settles on after it.  STREAM_ERROR is a frame the stream manager
\* rejects.
CryptoArgs == [tp : {"null", "tp", "tp_disable_migration"}, fin : BOOLEAN]
Frames ==
    {Frame("CRYPTO", a) : a \in CryptoArgs}
    \cup {Frame("CONNECTION_CLOSE", "0xA"), Frame("APPLICATION_CLOSE", "0xA")}
    \cup {Frame("MAX_DATA", v) : v \in 1 .. MaxData}
    \cup {Frame("NEW_CONNECTION_ID", c) : c \in {ZERO} \cup PeerAltCids}
    \cup {Frame("PATH_RESPONSE", 0), Frame("PING", 0), Frame("STREAM_ERROR", 0)}
    \cup {Frame("ACK", r) : r \in 1 .. MaxRto}

\* faulty variant: the connection id is put at the front of the queue
_handle_frame_at_the_front(s, frame) ==
    IF frame.arg = ZERO
    THEN [st |-> s, error |-> TransportError("PROTOCOL_VIOLATION")]
    ELSE [st |-> [s EXCEPT !.remote_alt_cids = <<frame.arg>> \o @], error |-> nullptr]

\* QUICNetVConnection::_handle_frame(const QUICNewConnectionIdFrame &)
_handle_frame(s, frame) ==
    IF frame.arg = ZERO
    THEN [st |-> s, error |-> TransportError("PROTOCOL_VIOLATION")]
    ELSE [st |-> [s EXCEPT !.remote_alt_cids = Append(@, frame.arg)], error |-> nullptr]

\* the record of the first close frame of an event
close_frame_met(s, frame) ==
    IF s.close_frame # NoFrame THEN s
    ELSE [s EXCEPT !.close_frame =
             [state |-> s.handler,
              error |-> IF frame.type = "APPLICATION_CLOSE" THEN ApplicationError(frame.arg)
                        ELSE TransportError(frame.arg)]]

\* handle_frame with a MAX_DATA frame that sets the limit instead of forwarding it
handle_frame_setting_limit(s, frame) ==
    CASE frame.type = "MAX_DATA" ->
            [st |-> _schedule_packet_write_ready(
                        [s EXCEPT !.remote_limit = set_limit(@, frame.arg)]),
             error |-> nullptr]
      [] frame.type \in {"PING", "BLOCKED"} -> [st |-> s, error |-> nullptr]
      [] frame.type = "NEW_CONNECTION_ID" -> _handle_frame(s, frame)
      [] frame.type \in {"APPLICATION_CLOSE", "CONNECTION_CLOSE"} ->
            IF s.handler = "state_connection_closed" \/ s.handler = "state_connection_draining"
            THEN [st |-> close_frame_met(s, frame), error |-> nullptr]
            ELSE IF frame.type = "APPLICATION_CLOSE"
                 THEN [st |-> _switch_to_draining_state(close_frame_met(s, frame),
                                                        ApplicationError(frame.arg)),
                       error |-> nullptr]
                 ELSE [st |-> _switch_to_draining_state(close_frame_met(s, frame),
                                                        TransportError(frame.arg)),
                       error |-> nullptr]
      [] OTHER -> [st |-> ink_assert(s, FALSE), error |-> nullptr]

\* QUICNetVConnection::handle_frame
handle_frame(s, frame) ==
    CASE frame.type = "MAX_DATA" ->
            [st |-> _schedule_packet_write_ready(
                        [s EXCEPT !.remote_limit = forward_limit(@, frame.arg)]),
             error |-> nullptr]
      [] frame.type \in {"PING", "BLOCKED"} -> [st |-> s, error |-> nullptr]
      [] frame.type = "NEW_CONNECTION_ID" -> _handle_frame(s, frame)
      [] frame.type \in {"APPLICATION_CLOSE", "CONNECTION_CLOSE"} ->
            IF s.handler = "state_connection_closed" \/ s.handler = "state_connection_draining"
            THEN [st |-> close_frame_met(s, frame), error |-> nullptr]
            ELSE IF frame.type = "APPLICATION_CLOSE"
                 THEN [st |-> _switch_to_draining_state(close_frame_met(s, frame),
                                                        ApplicationError(frame.arg)),
                       error |-> nullptr]
                 ELSE [st |-> _switch_to_draining_state(close_frame_met(s, frame),
                                                        TransportError(frame.arg)),
                       error |-> nullptr]
      [] OTHER -> [st |-> ink_assert(s, FALSE), error |-> nullptr]

\* the frame handlers registered besides the connection: QUICHandshake (CRYPTO),
\* QUICPathValidator (PATH_RESPONSE), QUICLossDetector (ACK), QUICStreamManager
other_handlers(s, frame) ==
    CASE frame.type = "CRYPTO" ->
            [st |-> [s EXCEPT !.hs_remote_tp = IF frame.arg.tp # "null" THEN frame.arg.tp ELSE @,
                              !.hs_completed = @ \/ frame.arg.fin],
             error |-> nullptr]
      [] frame.type = "PATH_RESPONSE" ->
            [st |-> IF s.path_validator = "validating"
                    THEN [s EXCEPT !.path_validator = "validated"] ELSE s,
             error |-> nullptr]
      [] frame.type = "ACK" -> [st |-> [s EXCEPT !.rto = frame.arg], error |-> nullptr]
      [] frame.type = "STREAM_ERROR" -> [st |-> s, error |-> TransportError("STREAM_STATE_ERROR")]
      [] OTHER -> [st |-> s, error |-> nullptr]

\* QUICNetVConnection::interests
interests == {"APPLICATION_CLOSE", "CONNECTION_CLOSE", "BLOCKED", "MAX_DATA", "NEW_CONNECTION_ID"}

\* QUICFrameDispatcher::receive_frames: every frame goes to the handler registered
\* for its type, in the order of the payload; the first error ends the dispatch
RECURSIVE receive_frames(_, _)
receive_frames(s, frames) ==
    IF frames = <<>> THEN [st |-> s, error |-> nullptr]
    ELSE LET r == IF Head(frames).type \in interests
                  THEN handle_frame(s, Head(frames))
                  ELSE other_handlers(s, Head(frames))
         IN  IF r.error # nullptr THEN r ELSE receive_frames(r.st, Tail(frames))

\* the stream manager after the frames of a payload: is_flow_controlled when a
\* STREAM frame was consumed, total_offset_received the largest end offset of
\* the data received so far, all of it in order (total_reordered_bytes)
is_flow_controlled(frames) == \E i \in 1 .. Len(frames) : frames[i].type = "STREAM"

RECURSIVE total_offset_received(_, _)
total_offset_received(received, frames) ==
    IF frames = <<>> THEN received
    ELSE total_offset_received(
             IF Head(frames).type = "STREAM" /\ Head(frames).arg > received
             THEN Head(frames).arg ELSE received,
             Tail(frames))

\* the flow-control part of _recv_and_ack, after the frames were handled
\* (r.st, r.error). _flow_control_buffer_size is the local INITIAL_MAX_DATA
\* (until _init_flow_control_params stores it the limit is UINT64_MAX and the
\* forward_limit changes nothing)
account_received(s, offset, limit, total) ==
    IF update(offset, limit, total).ret # 0
    THEN [st |-> s, error |-> TransportError("FLOW_CONTROL_ERROR")]
    ELSE [st |-> [s EXCEPT !.local_offset = update(offset, limit, total).offset,
                           !.local_limit = forward_limit(@, total + LocalInitialMaxData)],
          error |-> nullptr]

flow_control_received(r, frames) ==
    IF r.error # nullptr \/ ~is_flow_controlled(frames) THEN r
    ELSE account_received(r.st, r.st.local_offset, r.st.local_limit,
                          total_offset_received(r.st.local_offset, frames))

\* should_send_ack as QUICFrameDispatcher::receive_frames reports it: a frame
\* other than ACK was received
should_send_ack(frames) == \E i \in 1 .. Len(frames) : frames[i].type # "ACK"

\* no call of _ack_frame_creator.update
NoUpdate == [type |-> "NONE", should_send_ack |-> FALSE]

\* faulty variant: a RETRY packet elicits an ack like any other packet
ack_creator_update_also_for_retry(r, packet) ==
    [st |-> r.st, error |-> r.error,
     ack |-> IF r.error # nullptr THEN NoUpdate
             ELSE [type |-> packet.type, should_send_ack |-> should_send_ack(packet.frames)]]

\* the end of _recv_and_ack: _ack_frame_creator.update(level, packet_num,
\* should_send_ack) unless an error was returned before; r: the connection and
\* the error so far; the call made is the field ack of the result (the ack
\* creator keeps no state the connection reads back)
ack_creator_update(r, packet) ==
    [st |-> r.st, error |-> r.error,
     ack |-> IF r.error # nullptr THEN NoUpdate
             ELSE [type |-> packet.type,
                   should_send_ack |-> packet.type # "RETRY"
                                       /\ should_send_ack(packet.frames)]]

\* QUICNetVConnection::_recv_and_ack
_recv_and_ack(s, packet) ==
    ack_creator_update(
        flow_control_received(receive_frames(s, packet.frames), packet.frames), packet)

(***************************************************************************)
(* Received packets.                                                        *)
(***************************************************************************)
PacketTypes == {"VERSION_NEGOTIATION", "INITIAL", "RETRY", "HANDSHAKE", "ZERO_RTT_PROTECTED",
                "PROTECTED"}

\* QUICPacketCreationResult of a dequeue from a non-empty queue
Results == {"NOT_READY", "FAILED", "IGNORED", "UNSUPPORTED", "SUCCESS"}

RECURSIVE SeqsUpTo(_, _)
SeqsUpTo(S, n) ==
    IF n = 0 THEN {<<>>}
    ELSE LET shorter == SeqsUpTo(S, n - 1)
         IN  shorter \cup {Append(q, x) : q \in shorter, x \in S}

\* dcid, scid: the packet's connection ids; ok: what the collaborator consulted
\* for this packet answers (the version negotiator for VERSION_NEGOTIATION and
\* INITIAL, QUICAltConnectionManager::migrate_to for PROTECTED)
Packet(type, frames, dcid, scid, ok) ==
    [type |-> type, frames |-> frames, dcid |-> dcid, scid |-> scid, ok |-> ok]

\* the handshake completes on CRYPTO data of the Handshake level only
FramesOf(type) ==
    IF type = "HANDSHAKE" THEN Frames
    ELSE {f \in Frames : f.type = "CRYPTO" => ~f.arg.fin}

\* payloads: up to MaxFrames frames; a Handshake packet may besides announce a
\* connection id ahead of the CRYPTO data that completes the handshake
Payloads(type) ==
    SeqsUpTo(FramesOf(type), MaxFrames)
    \cup IF type = "HANDSHAKE"
         THEN {<<Frame("NEW_CONNECTION_ID", c), Frame("CRYPTO", [tp |-> "tp", fin |-> TRUE])>> :
                  c \in PeerAltCids}
         ELSE {}

Packets ==
    {Packet("VERSION_NEGOTIATION", <<>>, d, PeerCid, ok) :
        d \in {LocalCid, LocalAltCid}, ok \in BOOLEAN}
    \cup {Packet("INITIAL", fs, LocalCid, PeerCid, ok) :
            fs \in Payloads("INITIAL"), ok \in BOOLEAN}
    \cup UNION {{Packet(ty, fs, LocalCid, PeerCid, TRUE) :
                     fs \in Payloads(ty)} :
                ty \in {"RETRY", "HANDSHAKE", "ZERO_RTT_PROTECTED"}}
    \cup {Packet("PROTECTED", fs, d, PeerCid, ok) :
            fs \in Payloads("PROTECTED"),
            d \in {LocalCid, LocalAltCid}, ok \in BOOLEAN}

\* QUICNetVConnection::_dequeue_recv_packet, for a packet taken from the queue
_dequeue_recv_packet(s, res, packet) ==
    LET s1 == [s EXCEPT !.recv_queue = @ - 1]
    IN  IF res = "SUCCESS" /\ s1.netvc_context = "OUT" /\ packet.scid # ZERO
           /\ s1.peer_quic_connection_id # packet.scid
        THEN [s1 EXCEPT !.peer_quic_connection_id = packet.scid]
        ELSE s1

\* "discard all transport state": reset() of the loss detector of every
\* packet-number space, of the congestion controller, of the packet
\* retransmitter and of the handshake engine
TransportResets ==
    {<<"loss_detector", sp>> : sp \in QUIC_PN_SPACES}
        \cup {<<"congestion_controller">>, <<"packet_retransmitter">>,
              <<"handshake_handler">>}

\* QUICHandshake::reset: the handshake starts over
hs_reset(s) == [s EXCEPT !.hs_completed = FALSE, !.hs_remote_tp = "null"]

\* faulty variant: the restart after version negotiation also restarts the packet numbers
_state_handshake_process_version_negotiation_packet_resetting_numbers(s, packet) ==
    IF packet.dcid # s.quic_connection_id THEN [st |-> s, error |-> nullptr]
    ELSE IF s.hs_version_negotiated THEN [st |-> s, error |-> nullptr]
    ELSE [st |-> unlock(_schedule_packet_write_ready(
                    hs_reset([SCOPED_MUTEX_LOCK(s)
                                 EXCEPT !.hs_version_negotiated = packet.ok,
                                        !.resets = TransportResets \cup {<<"do_handshake">>},
                                        !.pn = [sp \in QUIC_PN_SPACES |-> 0]]))),
          error |-> IF packet.ok THEN nullptr
                    ELSE TransportError("VERSION_NEGOTIATION_ERROR")]

_state_handshake_process_version_negotiation_packet(s, packet) ==
    IF packet.dcid # s.quic_connection_id THEN [st |-> s, error |-> nullptr]
    ELSE IF s.hs_version_negotiated THEN [st |-> s, error |-> nullptr]
    ELSE [st |-> unlock(_schedule_packet_write_ready(
                    hs_reset([SCOPED_MUTEX_LOCK(s)
                                 EXCEPT !.hs_version_negotiated = packet.ok,
                                        !.resets = TransportResets \cup {<<"do_handshake">>}]))),
          error |-> IF packet.ok THEN nullptr
                    ELSE TransportError("VERSION_NEGOTIATION_ERROR")]

_state_handshake_process_initial_packet(s, packet) ==
    IF s.netvc_context = "IN"
    THEN LET s1 == [s EXCEPT !.hs_version_negotiated = @ \/ packet.ok]
         IN  IF s1.hs_version_negotiated
             THEN LET r == _recv_and_ack(s1, packet)
                  IN  IF r.error = nullptr /\ r.st.hs_remote_tp = "null"
                      THEN [st |-> r.st, error |-> TransportError("TRANSPORT_PARAMETER_ERROR")]
                      ELSE r
             ELSE [st |-> s1, error |-> nullptr]
    ELSE _recv_and_ack(s, packet)

\* r: the connection and the error after _recv_and_ack
after_retry(r) ==
    [st |-> unlock(_rerandomize_original_cid(r.st)), error |-> r.error]

_state_handshake_process_retry_packet(s, packet) ==
    after_retry(_recv_and_ack(SCOPED_MUTEX_LOCK([hs_reset(s) EXCEPT !.resets = TransportResets]),
                              packet))

_state_handshake_process_handshake_packet(s, packet) ==
    IF s.netvc_context = "IN" /\ ~s.src_addr_verified
    THEN _recv_and_ack([s EXCEPT !.src_addr_verified = TRUE], packet)
    ELSE _recv_and_ack(s, packet)

_state_handshake_process_zero_rtt_protected_packet(s, packet) ==
    _recv_and_ack(_start_application([s EXCEPT !.stream_fc_initialized = TRUE]), packet)

_state_handshake_process_packet(s, packet) ==
    CASE packet.type = "VERSION_NEGOTIATION" ->
            _state_handshake_process_version_negotiation_packet(s, packet)
      [] packet.type = "INITIAL" -> _state_handshake_process_initial_packet(s, packet)
      [] packet.type = "RETRY" -> _state_handshake_process_retry_packet(s, packet)
      [] packet.type = "HANDSHAKE" -> _state_handshake_process_handshake_packet(s, packet)
      [] packet.type = "ZERO_RTT_PROTECTED" ->
            _state_handshake_process_zero_rtt_protected_packet(s, packet)
      [] OTHER -> [st |-> s, error |-> TransportError("INTERNAL_ERROR")]

\* faulty variant: a server follows the peer to the new connection id although
\* the peer has announced none of its own
_state_connection_established_migrate_connection_without_ids(s, packet) ==
    LET s0 == ink_assert(s, s.hs_completed)
    IN  IF packet.dcid = s0.quic_connection_id THEN s0
        ELSE IF ~s0.alt_con_manager THEN [s0 EXCEPT !.pc = "crashed"]
        ELSE IF packet.ok
             THEN LET s1 == [s0 EXCEPT !.quic_connection_id = packet.dcid]
                  IN  IF s1.netvc_context = "IN"
                      THEN _validate_new_path(
                               IF s1.remote_alt_cids = <<>> THEN s1
                               ELSE [s1 EXCEPT !.peer_quic_connection_id = Head(s1.remote_alt_cids),
                                               !.remote_alt_cids = Tail(@)])
                      ELSE s1
             ELSE s0

\* _alt_con_manager->migrate_to dereferences a null pointer when no manager was
\* installed: the process dies
_state_connection_established_migrate_connection(s, packet) ==
    LET s0 == ink_assert(s, s.hs_completed)
    IN  IF packet.dcid = s0.quic_connection_id THEN s0
        ELSE IF s0.netvc_context = "IN" /\ s0.remote_alt_cids = <<>> THEN s0
        ELSE IF ~s0.alt_con_manager THEN [s0 EXCEPT !.pc = "crashed"]
        ELSE IF packet.ok
             THEN LET s1 == [s0 EXCEPT !.quic_connection_id = packet.dcid]
                  IN  IF s1.netvc_context = "IN"
                      THEN _validate_new_path(
                               [s1 EXCEPT !.peer_quic_connection_id = Head(s1.remote_alt_cids),
                                          !.remote_alt_cids = Tail(@)])
                      ELSE s1
             ELSE s0

\* the client's connection migration exercise
\* (packet.ok: the alt-connection manager has no frame of its own to send)
_state_connection_established_initiate_connection_migration(s, packet) ==
    LET s0 == ink_assert(ink_assert(s, s.hs_completed), s.netvc_context = "OUT")
    IN  IF ~s0.cm_exercise \/ s0.connection_migration_initiated THEN s0
        ELSE IF s0.hs_remote_tp = "null" THEN [s0 EXCEPT !.pc = "crashed"]
        ELSE IF s0.hs_remote_tp = "tp_disable_migration" \/ s0.remote_alt_cids = <<>> THEN s0
        ELSE IF ~s0.alt_con_manager THEN [s0 EXCEPT !.pc = "crashed"]
        ELSE IF ~packet.ok THEN s0
        ELSE _validate_new_path(
                 [s0 EXCEPT !.connection_migration_initiated = TRUE,
                            !.peer_quic_connection_id = Head(s0.remote_alt_cids),
                            !.remote_alt_cids = Tail(@)])

\* the body of the switch in _state_connection_established_receive_packet
established_process_packet(s, packet) ==
    CASE packet.type = "PROTECTED" ->
            LET s1 == _state_connection_established_migrate_connection(s, packet)
                s2 == IF s1.pc # "crashed" /\ s1.netvc_context = "OUT"
                      THEN _state_connection_established_initiate_connection_migration(s1, packet)
                      ELSE s1
            IN  IF s2.pc = "crashed" THEN [st |-> s2, error |-> nullptr]
                ELSE _recv_and_ack(s2, packet)
      [] packet.type \in {"INITIAL", "HANDSHAKE", "ZERO_RTT_PROTECTED"} ->
            _recv_and_ack(s, packet)
      [] OTHER -> [st |-> s, error |-> TransportError("INTERNAL_ERROR")]

(***************************************************************************)
(* Send paths.                                                              *)
(***************************************************************************)
\* QUICPacketFactory::create_*_packet: the packet takes the next number of its
\* space; r.st the connection after the call, r.number the packet's number
create_packet(s, space) ==
    [st |-> [s EXCEPT !.pn[space] = @ + 1],
     number |-> [space |-> space, number |-> s.pn[space]]]

\* QUICLossDetector::on_packet_sent, as far as the caller can see it
on_packet_sent(s, n) ==
    [s EXCEPT !.out = Append(@, [space |-> n.space, number |-> n.number, to |-> "loss_detector"]),
              !.ld_last[n.space] = IF n.number > @ THEN n.number ELSE @]

\* QUICPacketHandler::send_packet: the packet goes to the UDP layer
send_packet(s, n) ==
    [s EXCEPT !.out = Append(@, [space |-> n.space, number |-> n.number, to |-> "wire"]),
              !.wire_last[n.space] = IF n.number > @ THEN n.number ELSE @,
              !.tx = @ + 1]

\* QUICPacketHandler::send_packet with a datagram of coalesced packets
RECURSIVE send_udp_payload(_, _)
send_udp_payload(s, numbers) ==
    IF numbers = <<>> THEN s
    ELSE send_udp_payload(send_packet(s, Head(numbers)), Tail(numbers))

\* QUICHandshakeProtocol::current_encryption_level: the 1-RTT keys exist once
\* the handshake is complete
current_encryption_level(s) == IF s.hs_completed THEN "ONE_RTT" ELSE "INITIAL"

\* faulty variant: the CLOSE packet takes the number of the packet built before it
_packetize_closing_frame_reusing_number(s) ==
    IF s.connection_error = nullptr THEN [s EXCEPT !.mutexes = transmitter_locks(@)]
    ELSE LET sp == pn_space_index(current_encryption_level(s))
         IN  [s EXCEPT !.connection_error = nullptr, !.the_final_packet = TRUE,
                       !.final_pn = [space |-> sp, number |-> s.pn[sp] - 1],
                       !.mutexes = transmitter_locks(@)]

_packetize_closing_frame(s) ==
    IF s.connection_error = nullptr THEN [s EXCEPT !.mutexes = transmitter_locks(@)]
    ELSE LET r == create_packet(s, pn_space_index(current_encryption_level(s)))
         IN  [r.st EXCEPT !.connection_error = nullptr, !.the_final_packet = TRUE,
                          !.final_pn = r.number, !.mutexes = transmitter_locks(@)]

_state_closing_send_packet(s) ==
    LET s1 == _packetize_closing_frame(s)
    IN  IF s1.the_final_packet
        THEN [send_packet(s1, s1.final_pn) EXCEPT !.final_tx = @ + 1]
        ELSE s1

\* QUICTypeUtil::packet_type
packet_type(level) ==
    CASE level = "INITIAL" -> "INITIAL"
      [] level = "ZERO_RTT" -> "ZERO_RTT_PROTECTED"
      [] level = "HANDSHAKE" -> "HANDSHAKE"
      [] level = "ONE_RTT" -> "PROTECTED"

\* the for loop of _state_common_send_packet over QUIC_ENCRYPTION_LEVELS from
\* index i on; offer: the levels at which _packetize_frames returns a packet;
\* a.st the connection, a.written the packets stored in the datagram (their
\* numbers, in order), a.error the local error, a.bytes the stream data the
\* application has to send
\* the remote flow controller after a STREAM frame was stored
total_offset_sent(s, total) ==
    ink_assert([s EXCEPT !.remote_offset = update(@, s.remote_limit, total).offset],
               update(s.remote_offset, s.remote_limit, total).ret = 0)

\* the STREAM frame of _packetize_frames: the stream manager, asked for no more
\* than the credit, hands out `bytes` bytes of the started application unless
\* a path is being validated; the remote flow controller is updated with
\* total_offset_sent
stream_frame(s, bytes) ==
    IF \/ bytes = 0 \/ credit(s.remote_limit, s.remote_offset) = 0
       \/ ~s.application_started \/ s.path_validator = "validating"
    THEN s
    ELSE total_offset_sent(s, IF bytes <= credit(s.remote_limit, s.remote_offset)
                              THEN s.remote_offset + bytes ELSE s.remote_limit)

RECURSIVE send_levels(_, _, _)
send_levels(a, offer, i) ==
    IF i > Len(QUIC_ENCRYPTION_LEVELS) THEN a
    ELSE IF a.st.netvc_context = "IN" /\ ~a.st.src_addr_verified
            /\ a.st.handshake_packets_sent >= MAX_PACKETS_WITHOUT_SRC_ADDR_VARIDATION
         THEN [a EXCEPT !.error = 1]
    ELSE IF QUIC_ENCRYPTION_LEVELS[i] \in offer
         THEN LET counted == a.st.netvc_context = "IN"
                             /\ packet_type(QUIC_ENCRYPTION_LEVELS[i]) \in {"INITIAL", "HANDSHAKE"}
                  r == create_packet(IF QUIC_ENCRYPTION_LEVELS[i] = "ONE_RTT"
                                     THEN stream_frame(a.st, a.bytes) ELSE a.st,
                                     pn_space_index(QUIC_ENCRYPTION_LEVELS[i]))
                  s0 == on_packet_sent(r.st, r.number)
                  s1 == [s0 EXCEPT !.handshake_packets_sent = IF counted THEN @ + 1 ELSE @,
                                   !.packet_count = @ + 1]
              IN  send_levels([st |-> s1, written |-> Append(a.written, r.number),
                               error |-> a.error, bytes |-> a.bytes],
                              offer, i + 1)
         ELSE send_levels(a, offer, i + 1)

\* faulty variant: the handler returns without scheduling the next event
write_ready_done_without_event(s) == [s EXCEPT !.pc = "idle", !.packet_count = 0]

\* the end of the PACKET_WRITE_READY case of state_handshake and
\* state_connection_established, after _state_common_send_packet returned
write_ready_done(s) ==
    [_schedule_packet_write_ready(s) EXCEPT !.pc = "idle", !.packet_count = 0]

(***************************************************************************)
(* Event handlers.  data is the state of the handle of the delivered event. *)
(***************************************************************************)
RECURSIVE handleEvent(_, _, _)

state_pre_handshake(s, ev, data) ==
    handleEvent(_switch_to_handshake_state(
                    [s EXCEPT !.inactivity_timeout = TRUE, !.in_active_queue = TRUE]),
                ev, data)

\* _switch_to_established_state(); return this->handleEvent(event, data);
\* when the switch fails the handler is still state_handshake and the
\* re-dispatch recurses without end
switch_and_redispatch(s, ev, data) ==
    LET s1 == _switch_to_established_state(s)
    IN  IF s1.pc = "crashed" THEN s1
        ELSE IF s1.handler = "state_handshake" THEN [s1 EXCEPT !.pc = "crashed"]
        ELSE handleEvent([s1 EXCEPT !.pc = "idle"], ev, data)

state_handshake(s, ev, data) ==
    IF s.hs_completed THEN switch_and_redispatch(s, ev, data)
    ELSE CASE ev = "PACKET_READ_READY" -> [s EXCEPT !.pc = "handshake_recv", !.error = nullptr]
           [] ev = "PACKET_WRITE_READY" ->
                [_close_packet_write_ready(s, data) EXCEPT !.pc = "send", !.packet_count = 0]
           [] ev = "PATH_VALIDATION_TIMEOUT" -> _handle_path_validation_timeout(s, data)
           [] ev = "EVENT_IMMEDIATE" -> _handle_idle_timeout(s)
           [] OTHER -> s

state_connection_established(s, ev, data) ==
    CASE ev = "PACKET_READ_READY" -> [s EXCEPT !.pc = "established_recv", !.error = nullptr]
      [] ev = "PACKET_WRITE_READY" ->
            [_close_packet_write_ready(s, data) EXCEPT !.pc = "send", !.packet_count = 0]
      [] ev = "PATH_VALIDATION_TIMEOUT" -> _handle_path_validation_timeout(s, data)
      [] ev = "EVENT_IMMEDIATE" -> _handle_idle_timeout(s)
      [] OTHER -> s

state_connection_closing(s, ev, data) ==
    CASE ev = "PACKET_READ_READY" ->
            IF s.recv_queue > 0 THEN [s EXCEPT !.pc = "closing_recv"] ELSE s
      [] ev = "PACKET_WRITE_READY" ->
            _state_closing_send_packet(_close_packet_write_ready(s, data))
      [] ev = "PATH_VALIDATION_TIMEOUT" -> _handle_path_validation_timeout(s, data)
      [] ev = "CLOSING_TIMEOUT" -> _switch_to_close_state(_close_closing_timeout(s, data))
      [] OTHER -> ink_assert(s, FALSE)

state_connection_draining(s, ev, data) ==
    CASE ev = "PACKET_READ_READY" ->
            IF s.recv_queue > 0 THEN [s EXCEPT !.pc = "draining_recv"] ELSE s
      [] ev = "PACKET_WRITE_READY" -> _close_packet_write_ready(s, data)
      [] ev = "PATH_VALIDATION_TIMEOUT" -> _handle_path_validation_timeout(s, data)
      [] ev = "CLOSING_TIMEOUT" -> _switch_to_close_state(_close_closing_timeout(s, data))
      [] OTHER -> ink_assert(s, FALSE)

\* SHUTDOWN shuts the loss detectors down and frees the connection
state_connection_closed(s, ev, data) ==
    CASE ev = "SHUTDOWN" ->
            [_close_closed_event(
                 _unschedule_path_validation_timeout(
                     _unschedule_closing_timeout(_unschedule_packet_write_ready(s))), data)
             EXCEPT !.inactivity_timeout = FALSE, !.teardowns = @ + 1, !.pc = "freed"]
      [] ev = "PACKET_WRITE_READY" -> _close_packet_write_ready(s, data)
      [] OTHER -> s

\* Continuation::handleEvent
handleEvent(s, ev, data) ==
    CASE s.handler = "state_pre_handshake" -> state_pre_handshake(s, ev, data)
      [] s.handler = "state_handshake" -> state_handshake(s, ev, data)
      [] s.handler = "state_connection_established" -> state_connection_established(s, ev, data)
      [] s.handler = "state_connection_closing" -> state_connection_closing(s, ev, data)
      [] s.handler = "state_connection_draining" -> state_connection_draining(s, ev, data)
      [] s.handler = "state_connection_closed" -> state_connection_closed(s, ev, data)

(***************************************************************************)
(* One iteration of each receive loop.  res is what the dequeue returns,    *)
(* packet the packet it hands out on SUCCESS or UNSUPPORTED.                *)
(***************************************************************************)
NoPacket == Packet("NONE", <<>>, ZERO, ZERO, FALSE)

\* the results PacketReceiveQueue::dequeue can return
ResultsOf(queued) == IF queued = 0 THEN {"NO_PACKET"} ELSE Results

\* the packets a dequeue can hand out with result res; used holds the results
\* after which the loop looks at the packet
PacketsFor(res, used, P) == IF res \in used THEN P ELSE {NoPacket}

dequeue(s, res, packet) ==
    IF res = "NO_PACKET" THEN s ELSE _dequeue_recv_packet(s, res, packet)

\* the body of the do-while of state_handshake and what follows the loop
handshake_iteration(s, res, packet) ==
    LET s1 == dequeue(s, res, packet)
        r  == CASE res = "NOT_READY" -> [st |-> s1, error |-> nullptr]
                [] res = "FAILED" -> [st |-> s1, error |-> TransportError("INTERNAL_ERROR")]
                [] res \in {"SUCCESS", "UNSUPPORTED"} -> _state_handshake_process_packet(s1, packet)
                [] OTHER -> [st |-> s1, error |-> s1.error]
        s2 == [r.st EXCEPT !.error = r.error]
    IN  IF s2.hs_completed THEN switch_and_redispatch(s2, "PACKET_READ_READY", "null")
        ELSE IF r.error = nullptr /\ res \in {"SUCCESS", "IGNORED"}
             THEN [s2 EXCEPT !.pc = "handshake_recv"]
        ELSE IF r.error # nullptr THEN [s2 EXCEPT !.pc = "handle_error"]
        ELSE [s2 EXCEPT !.pc = "idle"]

\* the body of the do-while of _state_connection_established_receive_packet
established_iteration(s, res, packet) ==
    LET s1 == dequeue(s, res, packet)
    IN  CASE res = "FAILED" ->
                [s1 EXCEPT !.error = TransportError("INTERNAL_ERROR"), !.pc = "handle_error"]
          [] res \in {"NO_PACKET", "NOT_READY"} -> [s1 EXCEPT !.pc = "idle"]
          [] res = "IGNORED" -> s1
          [] OTHER ->
                LET r == established_process_packet(s1, packet)
                IN  IF r.st.pc = "crashed" THEN r.st
                    ELSE IF r.error # nullptr
                         THEN [r.st EXCEPT !.error = r.error, !.pc = "handle_error"]
                    ELSE IF res = "SUCCESS" THEN r.st
                    ELSE [r.st EXCEPT !.pc = "idle"]

\* the body of the while of _state_closing_receive_packet
closing_iteration(s, res, packet) ==
    LET s1 == dequeue(s, res, packet)
        s2 == IF res = "SUCCESS" /\ packet.type # "VERSION_NEGOTIATION"
              THEN _recv_and_ack(s1, packet).st ELSE s1
        s3 == [s2 EXCEPT !.recv_packet_count = @ + 1]
    IN  IF s3.recv_packet_window < STATE_CLOSING_MAX_RECV_PKT_WIND
           /\ s3.recv_packet_count >= s3.recv_packet_window
        THEN [_schedule_packet_write_ready(
                  [s3 EXCEPT !.recv_packet_count = 0, !.recv_packet_window = 2 * @])
              EXCEPT !.pc = "idle"]
        ELSE IF s3.recv_queue > 0 THEN s3 ELSE [s3 EXCEPT !.pc = "idle"]

\* the body of the while of _state_draining_receive_packet
draining_iteration(s, res, packet) ==
    LET s1 == dequeue(s, res, packet)
        s2 == IF res = "SUCCESS" THEN _recv_and_ack(s1, packet).st ELSE s1
    IN  IF s2.recv_queue > 0 THEN s2 ELSE [s2 EXCEPT !.pc = "idle"]

\* one iteration of the while of _state_common_send_packet; the congestion
\* window is open when admit holds.  _packetize_frames, called at every level
\* the for loop reaches, takes the two transmitter mutexes; the loop reaches
\* no level when the first one fails the test of the source address
send_iteration(s, admit, offer, bytes) ==
    IF s.packet_count >= PACKET_PER_EVENT \/ ~admit THEN write_ready_done(s)
    ELSE LET a == send_levels([st |-> s, written |-> <<>>, error |-> 0, bytes |-> bytes],
                              offer, 1)
         IN  IF a.written = <<>>
             THEN write_ready_done([a.st EXCEPT !.mutexes = IF a.error # 0 THEN @
                                                            ELSE transmitter_locks(@)])
             ELSE LET s1 == [send_udp_payload(a.st, a.written)
                                EXCEPT !.datagrams = @ + 1,
                                       !.mutexes = transmitter_locks(@)]
                  IN  IF a.error # 0 THEN write_ready_done(s1) ELSE s1

\* QUICPacketFactory::create_null_packet, as the result of _packetize_frames
NoBuilt == [frames |-> <<>>, retransmittable |-> FALSE, probing |-> FALSE, ack_only |-> FALSE]

(***************************************************************************)
(* Initial state: the connection after init(), start() and acceptEvent() /  *)
(* connectUp().                                                             *)
(***************************************************************************)
Init ==
    /\ handler = "state_pre_handshake"
    /\ netvc_context \in {"IN", "OUT"}
    /\ endpoint \in IF netvc_context = "IN" THEN BOOLEAN ELSE {TRUE}
    /\ cm_exercise \in IF netvc_context = "OUT" THEN BOOLEAN ELSE {FALSE}
    /\ connection_error = nullptr /\ the_final_packet = FALSE
    /\ packet_write_ready = "pending"
    /\ closing_timeout = "null" /\ closing_timeout_interval = 0
    /\ path_validation_timeout = "null" /\ closed_event = "null"
    /\ application_started = FALSE /\ src_addr_verified = FALSE
    /\ handshake_packets_sent = 0
    /\ recv_packet_count = 0 /\ recv_packet_window = 1
    /\ in_active_queue = FALSE /\ inactivity_timeout = FALSE
    /\ alt_con_manager = FALSE /\ connection_migration_initiated = FALSE
    /\ remote_alt_cids = <<>>
    /\ quic_connection_id = LocalCid /\ peer_quic_connection_id = PeerCid
    /\ local_limit = UINT64_MAX /\ remote_limit = UINT64_MAX
    /\ local_offset = 0 /\ remote_offset = 0
    /\ original_quic_connection_id = OriginalCid
    /\ udp_payload = NoPayload
    /\ draining_error = nullptr
    /\ close_frame = NoFrame
    /\ resets = {}
    /\ stream_frames_sent = 0 /\ built = NoBuilt
    /\ mutexes = [packet |-> 0, frame |-> 0, frame_locked |-> FALSE, misordered |-> FALSE]
    /\ ctable = IF netvc_context = "IN" THEN {LocalCid, OriginalCid} ELSE {}
    /\ hs_completed = FALSE /\ hs_remote_tp = "null" /\ hs_version_negotiated = FALSE
    /\ stream_fc_initialized = FALSE /\ path_validator = "idle" /\ rto = 1
    /\ recv_queue = 0 /\ arrivals = 0 /\ datagrams = 0
    /\ pc = "idle" /\ error = nullptr
    /\ packet_count = 0
    /\ op = [name |-> "init", arg |-> nullptr]
    /\ tx = 0 /\ final_tx = 0 /\ app_events = <<>>
    /\ chip = [handler |-> "NONE", completed |-> FALSE, remote_tp |-> FALSE, ret |-> 0]
    /\ left_open = FALSE /\ teardowns = 0 /\ assert_failed = FALSE
    /\ final_pn = NoNumber /\ pn = [sp \in QUIC_PN_SPACES |-> 0]
    /\ out = <<>>
    /\ ld_last = [sp \in QUIC_PN_SPACES |-> -1]
    /\ wire_last = [sp \in QUIC_PN_SPACES |-> -1]

(***************************************************************************)
(* Actions.                                                                 *)
(***************************************************************************)
\* the connection at the start of a step
NoCall == [handler |-> "NONE", completed |-> FALSE, remote_tp |-> FALSE, ret |-> 0]

\* the steps that continue the handler of an event
Continuations == {"handshake_recv", "established_recv", "closing_recv", "draining_recv",
                  "_handle_error", "send"}

Step(name, arg) ==
    [St EXCEPT !.tx = 0, !.out = <<>>, !.op = [name |-> name, arg |-> arg], !.chip = NoCall,
               !.resets = {},
               !.mutexes.frame_locked = FALSE, !.mutexes.misordered = FALSE,
               !.close_frame = IF name \in Continuations THEN @ ELSE NoFrame]

\* the NetHandler reports readable datagrams: n more have arrived
net_read_io(limit) ==
    /\ pc = "idle"
    /\ \E n \in 0 .. (limit - arrivals) :
          /\ recv_queue + n > 0
          /\ Becomes(handleEvent([Step("PACKET_READ_READY", nullptr)
                                     EXCEPT !.recv_queue = @ + n, !.arrivals = @ + n],
                                 "PACKET_READ_READY", "null"))

\* delivery of a scheduled event: the event leaves the scheduler, the handle
\* keeps pointing at it until the handler clears it
WriteReady ==
    /\ pc = "idle" /\ packet_write_ready = "pending"
    /\ Becomes(handleEvent([Step("PACKET_WRITE_READY", nullptr)
                               EXCEPT !.packet_write_ready = "stale"],
                           "PACKET_WRITE_READY", "stale"))

ClosingTimeout ==
    /\ pc = "idle" /\ closing_timeout = "pending"
    /\ Becomes(handleEvent([Step("CLOSING_TIMEOUT", nullptr) EXCEPT !.closing_timeout = "stale"],
                           "CLOSING_TIMEOUT", "stale"))

PathValidationTimeout ==
    /\ pc = "idle" /\ path_validation_timeout = "pending"
    /\ Becomes(handleEvent([Step("PATH_VALIDATION_TIMEOUT", nullptr)
                               EXCEPT !.path_validation_timeout = "stale"],
                           "PATH_VALIDATION_TIMEOUT", "stale"))

Shutdown ==
    /\ pc = "idle" /\ closed_event = "pending"
    /\ Becomes(handleEvent([Step("SHUTDOWN", nullptr) EXCEPT !.closed_event = "stale"],
                           "SHUTDOWN", "stale"))

\* the UDP thread, asked by free() through close_conenction, takes the
\* connection's ids out of the table
RemoveConnectionIds ==
    /\ pc = "freed"
    /\ Becomes([remove_connection_ids(Step("remove_connection_ids", nullptr))
                   EXCEPT !.pc = "removed"])

\* the InactivityCop finds the connection idle
IdleTimeout ==
    /\ pc = "idle" /\ inactivity_timeout
    /\ Becomes(handleEvent(Step("EVENT_IMMEDIATE", nullptr), "EVENT_IMMEDIATE", "null"))

\* the application closes the connection
CloseCall ==
    /\ pc = "idle"
    /\ \E e \in CloseErrors : Becomes(close(Step("close", e), e))

\* if (error != nullptr) { this->_handle_error(std::move(error)); }
HandleError ==
    /\ pc = "handle_error"
    /\ Becomes([_handle_error(Step("_handle_error", error), error)
                   EXCEPT !.pc = "idle", !.error = nullptr])

HandshakeRecv(P) ==
    /\ pc = "handshake_recv"
    /\ \E res \in ResultsOf(recv_queue) :
       \E packet \in PacketsFor(res, {"SUCCESS", "UNSUPPORTED"}, P) :
          Becomes(handshake_iteration(Step("handshake_recv", nullptr), res, packet))

EstablishedRecv(P) ==
    /\ pc = "established_recv"
    /\ \E res \in ResultsOf(recv_queue) :
       \E packet \in PacketsFor(res, {"SUCCESS", "UNSUPPORTED"}, P) :
          Becomes(established_iteration(Step("established_recv", nullptr), res, packet))

ClosingRecv(P) ==
    /\ pc = "closing_recv"
    /\ \E res \in ResultsOf(recv_queue) : \E packet \in PacketsFor(res, {"SUCCESS"}, P) :
          Becomes(closing_iteration(Step("closing_recv", nullptr), res, packet))

DrainingRecv(P) ==
    /\ pc = "draining_recv"
    /\ \E res \in ResultsOf(recv_queue) : \E packet \in PacketsFor(res, {"SUCCESS"}, P) :
          Becomes(draining_iteration(Step("draining_recv", nullptr), res, packet))

\* the levels at which the frame generators have something to send while one
\* datagram is filled: nothing, a flight of the handshake, or 1-RTT data
Offers == {{}, {"INITIAL", "HANDSHAKE"}, {"ONE_RTT"}}

\* every combination of levels
AllOffers == SUBSET {"INITIAL", "HANDSHAKE", "ONE_RTT"}

\* B: the amounts of stream data the application may have to send
Send(O, B) ==
    /\ pc = "send"
    /\ \E admit \in {datagrams < MaxDatagrams, FALSE} :
       \E offer \in IF admit THEN O ELSE {{}} :
       \E bytes \in IF "ONE_RTT" \in offer THEN B ELSE {0} :
          Becomes(send_iteration(Step("send", nullptr), admit, offer, bytes))

Next ==
    \/ net_read_io(MaxPackets)
    \/ WriteReady
    \/ ClosingTimeout
    \/ PathValidationTimeout
    \/ Shutdown
    \/ IdleTimeout
    \/ CloseCall
    \/ HandleError
    \/ HandshakeRecv(Packets)
    \/ EstablishedRecv(Packets)
    \/ ClosingRecv(Packets)
    \/ DrainingRecv(Packets)
    \/ Send(Offers, {0})

Spec == Init /\ [][Next]_vars

(***************************************************************************)
(* The closing period on its own: the peer keeps sending short-header       *)
(* packets to a connection the application closes.                          *)
(***************************************************************************)
ClosingPackets ==
    {Packet("PROTECTED", <<f>>, LocalCid, PeerCid, TRUE) :
        f \in {Frame("PING", 0), Frame("MAX_DATA", 1)}}

ClosingNext ==
    \/ net_read_io(MaxClosingPackets)
    \/ WriteReady
    \/ ClosingTimeout
    \/ Shutdown
    \/ CloseCall
    \/ HandleError
    \/ HandshakeRecv(ClosingPackets)
    \/ ClosingRecv(ClosingPackets)
    \/ Send(Offers, {0})

ClosingSpec == Init /\ [][ClosingNext]_vars

(***************************************************************************)
(* Scheduling: an event waiting in the scheduler is delivered, and a        *)
(* running handler runs on.  Arrivals, close() calls of the application and *)
(* the inactivity check are up to the environment.  The peer sends a close, *)
(* the end of its handshake, and a packet to an alternative connection id.  *)
(***************************************************************************)
FairPackets ==
    {Packet("INITIAL", <<Frame("CONNECTION_CLOSE", "0xA")>>, LocalCid, PeerCid, TRUE),
     Packet("HANDSHAKE", <<Frame("NEW_CONNECTION_ID", 1),
                           Frame("CRYPTO", [tp |-> "tp", fin |-> TRUE])>>,
            LocalCid, PeerCid, TRUE),
     Packet("PROTECTED", <<Frame("PING", 0)>>, LocalAltCid, PeerCid, TRUE)}

FairNext ==
    \/ net_read_io(MaxPackets)
    \/ WriteReady
    \/ ClosingTimeout
    \/ PathValidationTimeout
    \/ Shutdown
    \/ IdleTimeout
    \/ CloseCall
    \/ HandleError
    \/ HandshakeRecv(FairPackets)
    \/ EstablishedRecv(FairPackets)
    \/ ClosingRecv(FairPackets)
    \/ DrainingRecv(FairPackets)
    \/ Send(Offers, {0})

Fairness ==
    /\ WF_vars(WriteReady)
    /\ WF_vars(ClosingTimeout)
    /\ WF_vars(PathValidationTimeout)
    /\ WF_vars(Shutdown)
    /\ WF_vars(HandleError)
    /\ WF_vars(HandshakeRecv(FairPackets))
    /\ WF_vars(EstablishedRecv(FairPackets))
    /\ WF_vars(ClosingRecv(FairPackets))
    /\ WF_vars(DrainingRecv(FairPackets))
    /\ WF_vars(Send(Offers, {0}))

FairSpec == Init /\ [][FairNext]_vars /\ Fairness

(***************************************************************************)
(* Sending on its own: the frame generators offer every combination of      *)
(* levels, the peer restarts the handshake (version negotiation, RETRY),    *)
(* completes it and pings.                                                  *)
(***************************************************************************)
SendPackets ==
    {Packet("VERSION_NEGOTIATION", <<>>, LocalCid, PeerCid, TRUE),
     Packet("RETRY", <<>>, LocalCid, PeerCid, TRUE),
     Packet("HANDSHAKE", <<Frame("CRYPTO", [tp |-> "tp", fin |-> TRUE])>>,
            LocalCid, PeerCid, TRUE),
     Packet("PROTECTED", <<Frame("PING", 0)>>, LocalCid, PeerCid, TRUE)}

SendNext ==
    \/ net_read_io(MaxPackets)
    \/ WriteReady
    \/ ClosingTimeout
    \/ Shutdown
    \/ CloseCall
    \/ HandleError
    \/ HandshakeRecv(SendPackets)
    \/ EstablishedRecv(SendPackets)
    \/ ClosingRecv(SendPackets)
    \/ Send(AllOffers, {0})

SendSpec == Init /\ [][SendNext]_vars

(***************************************************************************)
(* Flow control on its own: the peer sends stream data in 0-RTT and 1-RTT   *)
(* packets, completes the handshake and raises the limit; the application   *)
(* has stream data to send.                                                 *)
(***************************************************************************)
FlowPackets ==
    {Packet(ty, <<Frame(f, n)>>, LocalCid, PeerCid, TRUE) :
        ty \in {"ZERO_RTT_PROTECTED", "PROTECTED"}, f \in {"STREAM", "MAX_DATA"},
        n \in 1 .. MaxData}
    \cup {Packet("HANDSHAKE", <<Frame("CRYPTO", [tp |-> "tp", fin |-> TRUE])>>,
                 LocalCid, PeerCid, TRUE)}

FlowNext ==
    \/ net_read_io(MaxPackets)
    \/ WriteReady
    \/ HandleError
    \/ HandshakeRecv(FlowPackets)
    \/ EstablishedRecv(FlowPackets)
    \/ Send(Offers, 0 .. MaxData)

FlowSpec == Init /\ [][FlowNext]_vars

(***************************************************************************)
(* The connection table: the peer restarts the handshake with RETRY,       *)
(* completes it, announces a connection id and moves to the alternative    *)
(* local id; the connection is closed, torn down and taken out of the table.*)
(***************************************************************************)
CidPackets ==
    {Packet("RETRY", <<>>, LocalCid, PeerCid, TRUE),
     Packet("HANDSHAKE", <<Frame("NEW_CONNECTION_ID", 1),
                           Frame("CRYPTO", [tp |-> "tp", fin |-> TRUE])>>,
            LocalCid, PeerCid, TRUE),
     Packet("HANDSHAKE", <<Frame("NEW_CONNECTION_ID", 1),
                           Frame("NEW_CONNECTION_ID", MaxCid + 1),
                           Frame("CRYPTO", [tp |-> "tp", fin |-> TRUE])>>,
            LocalCid, PeerCid, TRUE),
     Packet("PROTECTED", <<Frame("NEW_CONNECTION_ID", ZERO)>>, LocalCid, PeerCid, TRUE),
     Packet("PROTECTED", <<Frame("PING", 0)>>, LocalCid, PeerCid, TRUE),
     Packet("PROTECTED", <<Frame("PING", 0)>>, LocalAltCid, PeerCid, TRUE)}

CidNext ==
    \/ net_read_io(MaxPackets)
    \/ WriteReady
    \/ ClosingTimeout
    \/ PathValidationTimeout
    \/ Shutdown
    \/ RemoveConnectionIds
    \/ IdleTimeout
    \/ CloseCall
    \/ HandleError
    \/ HandshakeRecv(CidPackets)
    \/ EstablishedRecv(CidPackets)
    \/ ClosingRecv(CidPackets)
    \/ DrainingRecv(CidPackets)
    \/ Send(Offers, {0})

CidSpec == Init /\ [][CidNext]_vars

(***************************************************************************)
(* Packet sizes: _state_common_send_packet opens a datagram of              *)
(* min(window, pmtu) bytes and asks _packetize_frames for a packet at each  *)
(* encryption level with the bytes that are left.                           *)
(***************************************************************************)
\* congestion windows (bytes that may be sent), path MTUs, and the bytes of
\* frames the frame generators have for one packet
Windows == {1, 62, 63, 600, 1199, 1200, 1262, 1500}
Pmtus == {1280, 1500}
FrameBytes == {0, 40, 1300}

Min(a, b) == IF a < b THEN a ELSE b

\* QUICNetVConnection::minimum_quic_packet_size; rnd: _rnd() & 0x3f
minimum_quic_packet_size(context, rnd) ==
    IF context = "OUT" THEN MINIMUM_INITIAL_PACKET_SIZE ELSE 32 + rnd

\* QUICNetVConnection::maximum_quic_packet_size
maximum_quic_packet_size(pmtu, ip_family) ==
    IF ip_family = "PF_INET6" THEN pmtu - UDP_HEADER_SIZE - IPV6_HEADER_SIZE
    ELSE pmtu - UDP_HEADER_SIZE - IPV4_HEADER_SIZE

\* QUICNetVConnection::_maximum_stream_frame_data_size
_maximum_stream_frame_data_size(pmtu, ip_family) ==
    maximum_quic_packet_size(pmtu, ip_family) - MAX_STREAM_FRAME_OVERHEAD - MAX_PACKET_OVERHEAD

\* the padding of _packetize_frames: the length of the payload handed to
\* _build_packet, len the bytes of the frames stored
pad(level, context, len, max_packet_size) ==
    IF level = "INITIAL" /\ context = "OUT"
          /\ Min(minimum_quic_packet_size(context, 0), max_packet_size) > len
    THEN Min(minimum_quic_packet_size(context, 0), max_packet_size)
    ELSE len

\* QUICNetVConnection::_packetize_frames: the length of the payload of the
\* packet built, 0 when no packet is built; frames: the bytes the frame
\* generators have, each frame created within max_frame_size
_packetize_frames(level, context, pmtu, ip_family, max_packet_size, frames) ==
    IF max_packet_size <= MAX_PACKET_OVERHEAD THEN 0
    ELSE IF Min(frames, Min(max_packet_size - MAX_PACKET_OVERHEAD,
                            _maximum_stream_frame_data_size(pmtu, ip_family))) = 0
         THEN 0
         ELSE pad(level, context,
                  Min(frames, Min(max_packet_size - MAX_PACKET_OVERHEAD,
                                  _maximum_stream_frame_data_size(pmtu, ip_family))),
                  max_packet_size)

\* the datagram after the pass of the loop for level u.level: the packet, when
\* one is built, is stored behind those already written, its header taken as
\* MAX_PACKET_OVERHEAD bytes
store_packet(u, len) ==
    IF len = 0 THEN [u EXCEPT !.level = @ + 1]
    ELSE [u EXCEPT !.level = @ + 1,
                   !.written = @ + len + MAX_PACKET_OVERHEAD,
                   !.packets = Append(@, [level |-> QUIC_ENCRYPTION_LEVELS[u.level],
                                          len |-> len])]

\* uint32_t udp_payload_len = std::min(window, _pmtu), for a window that is open
OpenWindow ==
    /\ pc = "idle"
    /\ \E window \in Windows, pmtu \in Pmtus, ip_family \in {"PF_INET", "PF_INET6"} :
          Becomes([St EXCEPT !.udp_payload =
                      [len |-> Min(window, pmtu), pmtu |-> pmtu, ip_family |-> ip_family,
                       written |-> 0, level |-> 1, packets |-> <<>>]])

\* one pass of the loop over the encryption levels
PacketizeFrames ==
    /\ udp_payload.len > 0 /\ udp_payload.level <= Len(QUIC_ENCRYPTION_LEVELS)
    /\ \E frames \in FrameBytes :
          Becomes([St EXCEPT !.udp_payload =
                      store_packet(@, _packetize_frames(
                                          QUIC_ENCRYPTION_LEVELS[@.level], netvc_context,
                                          @.pmtu, @.ip_family,
                                          (@.len - @.written) % UINT32, frames))])

PacketizeNext == OpenWindow \/ PacketizeFrames

PacketizeSpec == Init /\ [][PacketizeNext]_vars

(***************************************************************************)
(* The frames of a packet: _packetize_frames asks the frame generators in   *)
(* a fixed order.  A frame takes one unit of max_frame_size; a generator    *)
(* returns no frame when nothing is left of it.  (The bytes are modelled by *)
(* _packetize_frames above, the flow-control accounting of STREAM frames by *)
(* stream_frame.)                                                           *)
(***************************************************************************)
\* what the frame generators have for one packet: numbers of frames, the
\* frames of the stream manager by type, and the ack creator's answers
\* (due: will_generate_frame, has: generate_frame returns a frame)
StreamManagerFrames == {"STREAM", "MAX_STREAM_DATA", "STREAM_BLOCKED"}

RECURSIVE Repeat(_, _)
Repeat(x, n) == IF n = 0 THEN <<>> ELSE <<x>> \o Repeat(x, n - 1)

ControlGenerators ==
    {[crypto |-> 0, path |-> FALSE, ncid |-> 0, lost |-> 0, max_data |-> FALSE,
      blocked |-> FALSE],
     [crypto |-> 0, path |-> FALSE, ncid |-> 1, lost |-> 0, max_data |-> TRUE,
      blocked |-> FALSE],
     [crypto |-> 2, path |-> TRUE, ncid |-> 1, lost |-> 1, max_data |-> TRUE,
      blocked |-> TRUE]}

Generators ==
    {[control |-> c, stream |-> s, ack |-> k] :
        c \in ControlGenerators,
        s \in {<<>>, <<"STREAM">>, <<"MAX_STREAM_DATA", "STREAM">>,
               Repeat("STREAM", MaxStreamFrames)},
        k \in {[due |-> FALSE, has |-> FALSE], [due |-> FALSE, has |-> TRUE],
               [due |-> TRUE, has |-> TRUE]}}

\* max_frame_size, in frames
FrameRooms == {0, 2, MaxStreamFrames + 8}

\* QUICFrame::is_probing_frame
is_probing_frame(producer) == producer \in {"PATH", "NEW_CONNECTION_ID"}

\* _store_frame for each of the n frames a generator returns while
\* max_frame_size has room; a: the frames stored so far (with the generator
\* and the type of each), the room left and _stream_frames_sent
RECURSIVE store_frames(_, _, _)
store_frames(a, producer, n) ==
    IF n = 0 \/ a.room = 0 THEN a
    ELSE store_frames([a EXCEPT !.frames = Append(@, [producer |-> producer, type |-> producer]),
                                !.room = @ - 1],
                      producer, n - 1)

\* the while loop over the frames of the stream manager
RECURSIVE stream_frames(_, _)
stream_frames(a, types) ==
    IF types = <<>> \/ a.room = 0 THEN a
    ELSE IF (a.sent + 1) % MAX_CONSECUTIVE_STREAMS = 0
         THEN [a EXCEPT !.frames = Append(@, [producer |-> "STREAM_MANAGER", type |-> Head(types)]),
                        !.room = @ - 1, !.sent = 0]
         ELSE stream_frames(
                  [a EXCEPT !.frames = Append(@, [producer |-> "STREAM_MANAGER",
                                                  type |-> Head(types)]),
                            !.room = @ - 1, !.sent = @ + 1],
                  Tail(types))

\* faulty variant: the ACK frame is asked for first
ack_frame_first(a, ack) ==
    IF a.room > 0 /\ (IF a.frames = <<>> THEN ack.due ELSE ack.has)
    THEN [a EXCEPT !.frames = <<[producer |-> "ACK", type |-> "ACK"]>> \o @, !.room = @ - 1,
                   !.ack_only = a.frames = <<>>]
    ELSE a

\* the ACK frame: asked for when another frame was stored, or when the ack
\* creator says one is due
ack_frame(a, ack) ==
    IF a.room > 0 /\ (IF a.frames = <<>> THEN ack.due ELSE ack.has)
    THEN [a EXCEPT !.frames = Append(@, [producer |-> "ACK", type |-> "ACK"]), !.room = @ - 1,
                   !.ack_only = a.frames = <<>>]
    ELSE a

\* faulty variant: a packet is retransmittable whenever it was built
build_always_retransmittable(a) ==
    IF a.frames = <<>> THEN NoBuilt
    ELSE [frames |-> a.frames, retransmittable |-> TRUE,
          probing |-> \E i \in 1 .. Len(a.frames) : is_probing_frame(a.frames[i].producer),
          ack_only |-> a.ack_only]

\* packet = _build_packet(level, buf, len, !ack_only, probing) when len != 0
build(a) ==
    IF a.frames = <<>> THEN NoBuilt
    ELSE [frames |-> a.frames, retransmittable |-> ~a.ack_only,
          probing |-> \E i \in 1 .. Len(a.frames) : is_probing_frame(a.frames[i].producer),
          ack_only |-> a.ack_only]

\* faulty variant: the stream manager is asked also while a path is validated
stream_manager_frames_whatever_the_path(a, g, validating) == stream_frames(a, g.stream)

\* STREAM, MAX_STREAM_DATA, STREAM_BLOCKED
stream_manager_frames(a, g, validating) ==
    IF validating THEN a ELSE stream_frames(a, g.stream)

\* the generators before the stream manager, in the order of the code: CRYPTO,
\* PATH_CHALLENGE / PATH_RESPONSE, NEW_CONNECTION_ID (when an alt-connection
\* manager exists), lost frames, MAX_DATA, BLOCKED
control_frames(a, c, alt_con) ==
    store_frames(
        store_frames(
            store_frames(
                store_frames(
                    store_frames(store_frames(a, "CRYPTO", c.crypto),
                                 "PATH", IF c.path THEN 1 ELSE 0),
                    "NEW_CONNECTION_ID", IF alt_con THEN c.ncid ELSE 0),
                "LOST", c.lost),
            "MAX_DATA", IF c.max_data THEN 1 ELSE 0),
        "BLOCKED", IF c.blocked THEN 1 ELSE 0)

\* the frames of _packetize_frames(level, max_packet_size): r.built the packet,
\* r.sent the new value of _stream_frames_sent (kept modulo
\* MAX_CONSECUTIVE_STREAMS); room: max_frame_size, 0 when max_packet_size is
\* not above MAX_PACKET_OVERHEAD
packetized(sent, room, g, validating, alt_con) ==
    ack_frame(stream_manager_frames(
                  control_frames([frames |-> <<>>, room |-> room, sent |-> sent,
                                  ack_only |-> FALSE],
                                 g.control, alt_con),
                  g, validating),
              g.ack)

\* one call of _packetize_frames
PacketizeFramesOf ==
    /\ pc = "idle"
    /\ \E g \in Generators, room \in FrameRooms, validating \in BOOLEAN, alt_con \in BOOLEAN :
       \E r \in {packetized(stream_frames_sent, room, g, validating, alt_con)} :
          Becomes([St EXCEPT !.built = build(r), !.stream_frames_sent = r.sent,
                             !.op = [name |-> "_packetize_frames",
                                     arg |-> [validating |-> validating]]])

FrameNext == PacketizeFramesOf

FrameSpec == Init /\ [][FrameNext]_vars

(***************************************************************************)
(* Properties.                                                              *)
(***************************************************************************)
Closing == "state_connection_closing"
Draining == "state_connection_draining"
Closed == "state_connection_closed"
Handshake == "state_handshake"
Established == "state_connection_established"

\* the step is a call of close(error): by the application, or by _handle_error
CloseCalled == op'.name \in {"close", "_handle_error"}

\* the step schedules a PACKET_WRITE_READY event
WriteReadyScheduled == packet_write_ready # "pending" /\ packet_write_ready' = "pending"

\* C1: a call of close(error) while the handler is closing, draining or closed
\* leaves the handler, the connection error, the write-ready event and the
\* closing timer as they were
C1_CloseIsNoOpOnceClosing ==
    [][CloseCalled /\ handler \in {Closing, Draining, Closed}
       => UNCHANGED <<handler, connection_error, packet_write_ready, closing_timeout,
                      closing_timeout_interval>>]_vars

\* C2: once the handler has been set to closing, draining or closed it is never
\* handshake or established (or pre-handshake) again
C2_LifecycleOnlyForward == left_open => handler \in {Closing, Draining, Closed}

\* C3: with scheduled events delivered, a connection in closing or draining
\* reaches closed and its SHUTDOWN teardown runs (unless the process dies first)
C3_ClosingLeadsToClosed ==
    (handler \in {Closing, Draining}) ~> ((handler = Closed /\ teardowns = 1) \/ pc = "crashed")

\* C4: while the handler is draining, handling PACKET_READ_READY,
\* PACKET_WRITE_READY, PATH_VALIDATION_TIMEOUT or CLOSING_TIMEOUT sends no packet
\* and schedules no write-ready event
C4_DrainingEmitsNothing ==
    [][handler = Draining
       /\ op'.name \in {"PACKET_READ_READY", "handshake_recv", "established_recv",
                        "closing_recv", "draining_recv", "PACKET_WRITE_READY",
                        "PATH_VALIDATION_TIMEOUT", "CLOSING_TIMEOUT"}
       => tx' = 0 /\ ~WriteReadyScheduled]_vars

\* C5: the handler becomes established only with the handshake engine complete
\* and, on a client, the remote transport parameters received; and
\* _complete_handshake_if_possible returns 0 exactly when it is called in
\* handshake state with the engine complete and (client) the parameters present
C5_EstablishedOnlyWhenComplete ==
    [][/\ (handler # Established /\ handler' = Established)
          => hs_completed' /\ (netvc_context = "OUT" => hs_remote_tp' # "null")
       /\ chip'.handler # "NONE"
          => (chip'.ret = 0 <=> /\ chip'.handler = Handshake
                                /\ chip'.completed
                                /\ (netvc_context = "OUT" => chip'.remote_tp))]_vars

\* C6: in established state both connection-level limits and the stream limits
\* are the ones of the transport parameters (the remote one possibly moved
\* forward since), and the application got its ACCEPT (server) or OPEN (client)
C6_EstablishedIsInitialized ==
    handler = Established
    => /\ stream_fc_initialized
       /\ local_limit = LocalInitialMaxData
       /\ remote_limit # UINT64_MAX
       /\ app_events # <<>>
       /\ app_events[1] = IF netvc_context = "IN" THEN "NET_EVENT_ACCEPT" ELSE "NET_EVENT_OPEN"

\* C7: a call of close(error) in handshake or established state returns with
\* the handler closing, the error recorded, write-ready pending, the connection
\* off the active queue, the inactivity timeout disabled and CLOSING_TIMEOUT
\* scheduled after 3 times the current RTO
C7_CloseEntersClosing ==
    [][CloseCalled /\ handler \in {Handshake, Established}
       => /\ handler' = Closing
          /\ connection_error' = op'.arg
          /\ packet_write_ready' = "pending"
          /\ ~in_active_queue' /\ ~inactivity_timeout'
          /\ closing_timeout' = "pending"
          /\ closing_timeout_interval' = 3 * rto]_vars

\* C8: the packet carrying the CLOSE frame is transmitted at most
\* STATE_CLOSING_MAX_SEND_PKT_NUM (8) times
C8_AtMostEightTransmissions == final_tx <= STATE_CLOSING_MAX_SEND_PKT_NUM

\* C9: in closing, a received packet schedules a re-emission only when the count
\* of packets received since the last one reaches the window N; the count is
\* then 0 and the window 2N; the window never exceeds 2^8 and at 2^8 nothing is
\* scheduled any more
C9_DoublingWindow ==
    [][/\ recv_packet_window' <= STATE_CLOSING_MAX_RECV_PKT_WIND
       /\ op'.name = "closing_recv" /\ WriteReadyScheduled
          => /\ recv_packet_window < STATE_CLOSING_MAX_RECV_PKT_WIND
             /\ recv_packet_count + 1 >= recv_packet_window
             /\ recv_packet_count' = 0
             /\ recv_packet_window' = 2 * recv_packet_window]_vars

\* C10: a server that has sent 3 Initial/Handshake packets to an address it has
\* not verified (no Handshake packet received yet) sends nothing, from any state
C10_AntiAmplification ==
    [][netvc_context = "IN" /\ ~src_addr_verified
       /\ handshake_packets_sent >= MAX_PACKETS_WITHOUT_SRC_ADDR_VARIDATION
       => tx' = 0]_vars

\* the entries of a step's log that went to `to` in packet-number space sp
Entries(log, to, sp) == SelectSeq(log, LAMBDA e : e.to = to /\ e.space = sp)

\* C11: in every packet-number space the numbers passed to successive
\* on_packet_sent calls are strictly increasing over the connection lifetime,
\* also across the resets of version negotiation and RETRY
C11_OnPacketSentIncreasing ==
    [][\A sp \in QUIC_PN_SPACES :
          LET calls == Entries(out', "loss_detector", sp)
          IN  \A i \in 1 .. Len(calls) :
                 calls[i].number > (IF i = 1 THEN ld_last[sp] ELSE calls[i - 1].number)]_vars

\* C11 witness: a client that negotiated the version anew passes the second
\* or a later Initial packet to on_packet_sent
C11_Witness ==
    /\ netvc_context = "OUT" /\ hs_version_negotiated /\ op.name = "send"
    /\ \E i \in 1 .. Len(out) :
          out[i].to = "loss_detector" /\ out[i].space = "Initial" /\ out[i].number >= 1

\* C12: in every packet-number space the packets handed to the UDP layer carry
\* strictly increasing numbers, the CLOSE packet sent in closing included
C12_WireStrictlyIncreasing ==
    [][\A sp \in QUIC_PN_SPACES :
          LET sent == Entries(out', "wire", sp)
          IN  \A i \in 1 .. Len(sent) :
                 sent[i].number > (IF i = 1 THEN wire_last[sp] ELSE sent[i - 1].number)]_vars

\* C12 (amended): the numbers put on the wire never decrease within a space,
\* and a number is repeated only by state_connection_closing sending
\* _the_final_packet again
C12_WireIncreasingButFinalPacket ==
    [][\A sp \in QUIC_PN_SPACES :
          LET sent == Entries(out', "wire", sp)
          IN  \A i \in 1 .. Len(sent) :
                 LET before == IF i = 1 THEN wire_last[sp] ELSE sent[i - 1].number
                 IN  \/ sent[i].number > before
                     \/ /\ sent[i].number = before
                        /\ handler = Closing /\ op'.name = "PACKET_WRITE_READY"
                        /\ final_pn = [space |-> sp, number |-> before]
                        /\ final_pn' = final_pn]_vars

\* C12 witness: the CLOSE packet is on the wire for the second time, in a
\* space in which other packets were sent before it
C12_Witness ==
    /\ final_tx >= 2 /\ op.name = "PACKET_WRITE_READY" /\ tx = 1
    /\ final_pn.number >= 1 /\ wire_last[final_pn.space] = final_pn.number

\* C13: after every frame accounting step the offset of both connection-level
\* flow controllers is within its limit
C13_OffsetWithinLimit == local_offset <= local_limit /\ remote_offset <= remote_limit

\* C14: the limits of both connection-level flow controllers never decrease
C14_LimitsNeverDecrease ==
    [][local_limit' >= local_limit /\ remote_limit' >= remote_limit]_vars

\* C14 (amended): a limit decreases only when _init_flow_control_params, run by
\* the successful _complete_handshake_if_possible, replaces the UINT64_MAX the
\* flow controller was created with; from then on the limits never decrease
C14_LimitsDecreaseOnlyAtInit ==
    [][local_limit' < local_limit \/ remote_limit' < remote_limit
          => /\ local_limit = UINT64_MAX /\ remote_limit = UINT64_MAX
             /\ chip'.handler = Handshake /\ chip'.completed /\ chip'.ret = 0]_vars

\* C14 witness: after the initialization both limits have moved forward, the
\* local one with received stream data, the remote one with a MAX_DATA frame
C14_Witness ==
    \/ /\ local_limit # UINT64_MAX /\ local_limit > LocalInitialMaxData /\ local_offset > 0
    \/ /\ remote_limit # UINT64_MAX /\ remote_limit > RemoteInitialMaxData

\* C15: a connection initialized with a connection table has its current
\* original id and local id bound in the table until remove_connection_ids,
\* and after remove_connection_ids the table holds none of its ids
C15_CidsBoundUntilRemoved ==
    netvc_context = "IN"
        => IF pc = "removed" THEN ctable = {}
           ELSE {original_quic_connection_id, quic_connection_id} \subseteq ctable

\* C16: every Initial packet a client builds has a payload of at least 1200
\* bytes after padding, whatever the window and the bytes left in the datagram
C16_ClientInitialPadded ==
    \A i \in 1 .. Len(udp_payload.packets) :
        netvc_context = "OUT" /\ udp_payload.packets[i].level = "INITIAL"
            => udp_payload.packets[i].len >= MINIMUM_INITIAL_PACKET_SIZE

\* C17: an idle timeout (EVENT_IMMEDIATE) in handshake or established state
\* enters draining with NO_ERROR, sends nothing, schedules no write and leaves
\* a closing timeout of three times the RTO pending; from then on no CLOSE
\* packet is sent and no write is scheduled, and the closing timeout closes
\* the connection
IdleTimedOut == draining_error = TransportError("NO_ERROR")

C17_IdleTimeoutDrains ==
    [][/\ (/\ op'.name = "EVENT_IMMEDIATE"
           /\ handler \in {"state_handshake", "state_connection_established"})
          => /\ handler' = "state_connection_draining" /\ IdleTimedOut'
             /\ tx' = 0 /\ packet_write_ready' = packet_write_ready
             /\ closing_timeout' = "pending" /\ closing_timeout_interval' = 3 * rto'
       /\ IdleTimedOut
          => /\ final_tx' = final_tx
             /\ (packet_write_ready' = "pending" => packet_write_ready = "pending")
             /\ (op'.name = "CLOSING_TIMEOUT" => handler' = "state_connection_closed")]_vars

\* C18: when a handler that received a CONNECTION_CLOSE or APPLICATION_CLOSE
\* frame in handshake, established or closing state returns, the connection
\* is draining with the error of the frame; a close frame received in
\* draining or closed state leaves the state as it was
C18_CloseFrameDrains ==
    pc = "idle" /\ close_frame # NoFrame
        => IF close_frame.state \in {"state_handshake", "state_connection_established",
                                     "state_connection_closing"}
           THEN handler = "state_connection_draining" /\ draining_error = close_frame.error
           ELSE handler = close_frame.state

\* C19: a PATH_VALIDATION_TIMEOUT delivered in handshake, established, closing
\* or draining state closes the connection in that step, with no packet sent
\* (the CLOSE packet included), when the path is not validated; when it is
\* validated the lifecycle state stays as it was
C19_PathValidationTimeoutCloses ==
    [][(/\ op'.name = "PATH_VALIDATION_TIMEOUT"
        /\ handler \in {"state_handshake", "state_connection_established",
                         "state_connection_closing", "state_connection_draining"})
          => /\ tx' = 0 /\ out' = <<>> /\ final_tx' = final_tx
             /\ IF path_validator # "validated"
                THEN handler' = "state_connection_closed"
                ELSE handler' = handler]_vars

\* C19 witness: the timeout of a path that was not validated has closed a
\* connection that was closing, and has sent nothing
C19_Witness ==
    /\ op.name = "PATH_VALIDATION_TIMEOUT" /\ path_validator = "validating"
    /\ chip.handler = "state_connection_closing" /\ handler = "state_connection_closed"
    /\ tx = 0 /\ closed_event = "pending"

\* C20: entering the closed state schedules the one SHUTDOWN event of the
\* connection; the closed state is never left, no second SHUTDOWN is
\* scheduled, the teardown runs only for that SHUTDOWN and at most once
\* whatever else is delivered, and it does run
C20_OneShutdown ==
    /\ [][/\ ((handler' = "state_connection_closed" /\ handler # "state_connection_closed")
               => (closed_event = "null" /\ closed_event' = "pending" /\ teardowns = 0))
           /\ (handler = "state_connection_closed" => handler' = "state_connection_closed")
           /\ ((closed_event' = "pending" /\ closed_event # "pending")
               => (handler # "state_connection_closed"
                   /\ handler' = "state_connection_closed"))
           /\ (teardowns' # teardowns
               => (/\ op'.name = "SHUTDOWN" /\ handler = "state_connection_closed"
                   /\ teardowns = 0 /\ teardowns' = 1 /\ closed_event' = "null"))]_vars
    /\ ((handler = "state_connection_closed") ~> (teardowns = 1))

\* C20 witness: the teardown has run once for a connection that was closed by
\* its closing timeout after the application called close()
C20_Witness ==
    /\ op.name = "SHUTDOWN" /\ pc = "freed" /\ teardowns = 1
    /\ handler = "state_connection_closed" /\ closed_event = "null"
    /\ final_tx > 0

\* C21: the step that enters the closed state leaves the write-ready, the
\* closing and the path-validation timer unscheduled, and none of the three
\* is delivered while the connection is closed
C21_ClosedHasNoTimers ==
    [][/\ ((handler' = "state_connection_closed" /\ handler # "state_connection_closed")
           => (/\ packet_write_ready' # "pending"
               /\ closing_timeout' # "pending"
               /\ path_validation_timeout' # "pending"))
       /\ (handler = "state_connection_closed"
           => op'.name \notin {"PACKET_WRITE_READY", "CLOSING_TIMEOUT",
                                "PATH_VALIDATION_TIMEOUT"})]_vars

\* C22: a NEW_CONNECTION_ID frame with a zero-length connection id is answered
\* with a PROTOCOL_VIOLATION error and changes nothing; any other frame puts its
\* connection id at the back of remote_alt_cids and changes nothing else; the
\* queue loses connection ids only at the front, and the one taken becomes the
\* peer's connection id
C22_ZeroRefusedOthersQueuedInOrder ==
    /\ [](\A c \in {ZERO} \cup 1 .. (MaxCid + 1) :
            _handle_frame(St, Frame("NEW_CONNECTION_ID", c)) =
                IF c = ZERO
                THEN [st |-> St, error |-> TransportError("PROTOCOL_VIOLATION")]
                ELSE [st |-> [St EXCEPT !.remote_alt_cids = Append(remote_alt_cids, c)],
                      error |-> nullptr])
    /\ [][\E k \in {0, 1} :
            /\ k <= Len(remote_alt_cids)
            /\ Len(remote_alt_cids') >= Len(remote_alt_cids) - k
            /\ \A i \in 1 .. (Len(remote_alt_cids) - k) :
                    remote_alt_cids'[i] = remote_alt_cids[i + k]
            /\ \A i \in 1 .. Len(remote_alt_cids') : remote_alt_cids'[i] # ZERO
            /\ (k = 1 => peer_quic_connection_id' = Head(remote_alt_cids))]_vars

\* two connection ids were received and the one received first was consumed
C22_Witness ==
    /\ remote_alt_cids = <<MaxCid + 1>>
    /\ peer_quic_connection_id = 1

\* the step in which a client accepts a VERSION_NEGOTIATION packet and starts
\* the handshake over
VersionNegotiationAccepted ==
    /\ netvc_context = "OUT" /\ handler = "state_handshake"
    /\ ~hs_version_negotiated /\ hs_version_negotiated'

\* the first new packet of a step in space sp carries the number the packet
\* factory has for that space
FirstPacketTakesCounter ==
    \A sp \in QUIC_PN_SPACES :
        LET calls == Entries(out', "loss_detector", sp)
        IN  calls # <<>> => calls[1].number = pn[sp]

\* C23: when a client accepts VERSION_NEGOTIATION and starts the handshake
\* over, the packet numbers start over at 0 in every space, so that the first
\* packet sent in a space afterwards carries the number 0
C23_NumbersRestartAtZero ==
    [][/\ (VersionNegotiationAccepted => \A sp \in QUIC_PN_SPACES : pn'[sp] = 0)
       /\ FirstPacketTakesCounter]_vars

\* C23 (amended): the restart leaves the packet numbers alone, so that the
\* first packet sent in a space afterwards carries the number that follows the
\* last one used in that space before the restart
C23_NumbersContinue ==
    [][/\ (VersionNegotiationAccepted => pn' = pn)
       /\ FirstPacketTakesCounter]_vars

\* C23 witness: a client that sent an Initial packet has accepted a
\* VERSION_NEGOTIATION packet and is about to send its first packet since
C23_Witness ==
    /\ netvc_context = "OUT" /\ handler = "state_handshake" /\ hs_version_negotiated
    /\ ~hs_completed /\ packet_write_ready = "pending"
    /\ pn["Initial"] >= 1 /\ ld_last["Initial"] = pn["Initial"] - 1
    /\ op.name # "send"

\* a server in established state is receiving and knows no connection id of
\* the peer but the one in use
ServerWithoutAltCids ==
    /\ netvc_context = "IN" /\ handler = "state_connection_established"
    /\ pc = "established_recv" /\ remote_alt_cids = <<>>

\* C24: when a server in established state that holds no alternative
\* connection id of the peer receives a PROTECTED packet whose destination id
\* is not its local id, the migration attempt changes nothing (local and peer
\* connection id, remote_alt_cids, path-validation timer) and raises no error,
\* and the packet goes on to _recv_and_ack
C24_MigrationWithoutIdsIgnored ==
    ServerWithoutAltCids =>
        \A packet \in Packets :
            (packet.type = "PROTECTED" /\ packet.dcid # quic_connection_id) =>
                /\ _state_connection_established_migrate_connection(St, packet)
                       = ink_assert(St, hs_completed)
                /\ established_process_packet(St, packet)
                       = _recv_and_ack(ink_assert(St, hs_completed), packet)

\* C24 witness: such a server has a packet waiting in its receive queue
C24_Witness ==
    ServerWithoutAltCids /\ recv_queue > 0 /\ alt_con_manager /\ hs_completed

\* C25: _connection_error is assigned at most once in the life of a connection:
\* an error is recorded only while none has been recorded before (none is held
\* and none has been moved into the final packet), so that the error of the
\* first close() is never replaced
C25_OneConnectionError ==
    [][(connection_error' # connection_error /\ connection_error' # nullptr)
          => (connection_error = nullptr /\ ~the_final_packet)]_vars

(***************************************************************************)
(* close() from another thread: the call takes no lock and tests no thread, *)
(* so it runs while a handler of the event-loop thread is between two of    *)
(* its steps.                                                               *)
(***************************************************************************)
CloseOffThread ==
    /\ pc \in {"handshake_recv", "established_recv", "closing_recv", "draining_recv",
               "send", "handle_error"}
    /\ \E e \in CloseErrors :
          Becomes(close([St EXCEPT !.op = [name |-> "close", arg |-> e]], e))

RaceNext ==
    \/ net_read_io(MaxPackets)
    \/ WriteReady
    \/ ClosingTimeout
    \/ PathValidationTimeout
    \/ Shutdown
    \/ HandleError
    \/ HandshakeRecv(FairPackets)
    \/ EstablishedRecv(FairPackets)
    \/ ClosingRecv(FairPackets)
    \/ DrainingRecv(FairPackets)
    \/ Send(Offers, {0})
    \/ CloseOffThread

RaceSpec == Init /\ [][RaceNext]_vars

\* C26: close() called by another thread while a handler is running only
\* schedules work: the handler, the recorded error, the closing timer and the
\* activity bookkeeping are as they were when the call returns
C26_CloseOffThreadOnlySchedules ==
    [][(op'.name = "close" /\ pc # "idle")
          => UNCHANGED <<handler, connection_error, closing_timeout, in_active_queue,
                         inactivity_timeout>>]_vars

BurstPackets ==
    {Packet("HANDSHAKE", <<Frame("CRYPTO", [tp |-> "tp", fin |-> TRUE])>>,
            LocalCid, PeerCid, TRUE),
     Packet("PROTECTED", <<Frame("PING", 0)>>, LocalCid, PeerCid, TRUE)}

\* the levels at which the frame generators have something to send while one
\* datagram is filled: nothing, 1-RTT data, or acknowledgements of the
\* handshake flights together with 1-RTT data
BurstOffers == {{}, {"ONE_RTT"}, {"INITIAL", "HANDSHAKE", "ONE_RTT"}}

\* one iteration of the while of _state_common_send_packet with a congestion
\* window that admits MaxBurst datagrams
SendBurst ==
    /\ pc = "send"
    /\ \E admit \in {datagrams < MaxBurst, FALSE} :
       \E offer \in IF admit THEN BurstOffers ELSE {{}} :
          Becomes(send_iteration(Step("send", nullptr), admit, offer, 0))

BurstNext ==
    \/ net_read_io(1)
    \/ WriteReady
    \/ HandshakeRecv(BurstPackets)
    \/ EstablishedRecv(BurstPackets)
    \/ SendBurst

BurstSpec == Init /\ [][BurstNext]_vars

\* C28: while one PACKET_WRITE_READY event is handled in handshake or
\* established state, no more than PACKET_PER_EVENT packets are built and sent
C28_AtMostPacketPerEvent ==
    (pc = "send" /\ handler \in {"state_handshake", "state_connection_established"})
        => packet_count <= PACKET_PER_EVENT

\* C29: every event handler runs to completion and returns: no step of a
\* handler ends in a re-dispatch that recurses without end or in the death of
\* the process
C29_HandlersReturn == pc # "crashed"

\* the VERSION_NEGOTIATION packets a peer, or anyone else on the network, can
\* send to the connection
VersionNegotiationPackets ==
    {Packet("VERSION_NEGOTIATION", <<>>, d, c, ok) :
        d \in {LocalCid, LocalAltCid}, c \in {PeerCid, PeerCid + 1}, ok \in BOOLEAN}

\* the connection when the receive loop of state_handshake has dequeued and
\* processed one packet
AfterHandshakePacket(packet) ==
    handshake_iteration(Step("handshake_recv", nullptr), "SUCCESS", packet)

\* the connection when a packet has left the receive queue and the loop has
\* gone on, nothing else having happened
OnlyDequeued ==
    [Step("handshake_recv", nullptr) EXCEPT !.recv_queue = @ - 1, !.pc = "handshake_recv"]

\* C30: in handshake state a VERSION_NEGOTIATION packet whose DCID is the local
\* connection id, received before the version is negotiated, resets the loss
\* detectors, the congestion controller, the retransmitter and the handshake,
\* restarts the handshake and schedules a write, the packet numbers staying as
\* they are; every other VERSION_NEGOTIATION packet changes nothing
C30_VersionNegotiationActedOnOrIgnored ==
    (handler = "state_handshake" /\ pc = "handshake_recv" /\ recv_queue > 0 /\ ~hs_completed)
        => \A packet \in VersionNegotiationPackets :
              IF packet.dcid = quic_connection_id /\ ~hs_version_negotiated
              THEN /\ AfterHandshakePacket(packet).resets
                        = TransportResets \cup {<<"do_handshake">>}
                   /\ ~AfterHandshakePacket(packet).hs_completed
                   /\ AfterHandshakePacket(packet).hs_remote_tp = "null"
                   /\ AfterHandshakePacket(packet).packet_write_ready # "null"
                   /\ AfterHandshakePacket(packet).pn = pn
              ELSE AfterHandshakePacket(packet) = OnlyDequeued

\* the place of a frame generator in the order of _packetize_frames
Priority(producer) ==
    CASE producer = "CRYPTO" -> 1
      [] producer = "PATH" -> 2
      [] producer = "NEW_CONNECTION_ID" -> 3
      [] producer = "LOST" -> 4
      [] producer = "MAX_DATA" -> 5
      [] producer = "BLOCKED" -> 6
      [] producer = "STREAM_MANAGER" -> 7
      [] producer = "ACK" -> 8

StreamManagerFramesIn(packet) ==
    {i \in 1 .. Len(packet.frames) : packet.frames[i].producer = "STREAM_MANAGER"}

\* the packet _packetize_frames builds next when the path is not validated and
\* max_frame_size has room for every frame offered
NextPacketWithRoom(g) ==
    build(packetized(stream_frames_sent, MaxStreamFrames + 8, g, FALSE, alt_con_manager))

\* C32: a packet built while the path validator is validating holds no frame
\* of the stream manager; no packet holds more than MAX_CONSECUTIVE_STREAMS
\* frames of the stream manager; and a packet with room takes the frames the
\* stream manager has up to MAX_CONSECUTIVE_STREAMS, whatever earlier packets
\* have carried
C32_StreamFramesGatedAndCut ==
    /\ (op.name = "_packetize_frames" /\ op.arg.validating)
          => StreamManagerFramesIn(built) = {}
    /\ Cardinality(StreamManagerFramesIn(built)) <= MAX_CONSECUTIVE_STREAMS
    /\ \A g \in Generators :
          Cardinality(StreamManagerFramesIn(NextPacketWithRoom(g)))
              = Min(Len(g.stream), MAX_CONSECUTIVE_STREAMS)

\* the frames of a packet that are not the ACK frame
OtherFramesIn(packet) ==
    {i \in 1 .. Len(packet.frames) : packet.frames[i].producer # "ACK"}

AckFramesIn(packet) ==
    {i \in 1 .. Len(packet.frames) : packet.frames[i].producer = "ACK"}

Budget == (udp_payload.len - udp_payload.written) % UINT32

\* the payload length of the packet that call builds, 0 when it builds none
NextPayload(frames) ==
    _packetize_frames(QUIC_ENCRYPTION_LEVELS[udp_payload.level], netvc_context,
                      udp_payload.pmtu, udp_payload.ip_family, Budget, frames)

\* C34: _packetize_frames builds nothing with a budget of MAX_PACKET_OVERHEAD
\* or less, and otherwise hands the packet builder a payload, padding
\* included, of at most the budget less MAX_PACKET_OVERHEAD
C34_PayloadLeavesRoomForHeader ==
    (udp_payload.len > 0 /\ udp_payload.level <= Len(QUIC_ENCRYPTION_LEVELS))
        => \A frames \in FrameBytes :
              IF Budget <= MAX_PACKET_OVERHEAD THEN NextPayload(frames) = 0
              ELSE NextPayload(frames) <= Budget - MAX_PACKET_OVERHEAD

\* packets with stream data, with other frames, and a RETRY packet
AckedPackets ==
    FlowPackets
        \cup {Packet(ty, <<Frame("ACK", 1)>>, LocalCid, PeerCid, TRUE) :
                 ty \in {"HANDSHAKE", "PROTECTED"}}
        \cup {Packet("RETRY", <<Frame("CRYPTO", [tp |-> "null", fin |-> FALSE])>>,
                     LocalCid, PeerCid, TRUE),
              Packet("PROTECTED", <<Frame("PING", 0), Frame("STREAM", MaxData + 1)>>,
                     LocalCid, PeerCid, TRUE)}

\* the received offset the stream manager reports after the packet
TotalAfter(packet) == total_offset_received(local_offset, packet.frames)

\* a receive loop that calls _recv_and_ack is about to dequeue a packet
ReceiveLoopRuns == pc \in {"handshake_recv", "established_recv"} /\ recv_queue > 0

\* the call of _ack_frame_creator.update C35 expects for a packet
ExpectedUpdate(packet) ==
    [type |-> packet.type,
     should_send_ack |-> packet.type # "RETRY"
                         /\ \E i \in 1 .. Len(packet.frames) : packet.frames[i].type # "ACK"]

\* C35: when the frames of a packet consumed stream bytes and the received
\* offset exceeds the local limit, _recv_and_ack returns FLOW_CONTROL_ERROR,
\* leaves the limit and does not update the ack creator; otherwise the limit
\* is the received bytes plus the buffer size afterwards and the ack creator
\* is updated with should_send_ack, which is false for a RETRY packet
C35_LimitAdvancedAndAck ==
    \A packet \in AckedPackets :
        (ReceiveLoopRuns /\ receive_frames(St, packet.frames).error = nullptr
         /\ is_flow_controlled(packet.frames)) =>
            IF TotalAfter(packet) > local_limit
            THEN /\ _recv_and_ack(St, packet).error = TransportError("FLOW_CONTROL_ERROR")
                 /\ _recv_and_ack(St, packet).st.local_limit = local_limit
                 /\ _recv_and_ack(St, packet).ack = NoUpdate
            ELSE /\ _recv_and_ack(St, packet).error = nullptr
                 /\ _recv_and_ack(St, packet).st.local_limit
                        = TotalAfter(packet) + LocalInitialMaxData
                 /\ _recv_and_ack(St, packet).ack = ExpectedUpdate(packet)

\* C35 (amended): as above, but the limit only moves forward: a limit that is
\* still the UINT64_MAX the flow controller was created with (stream data
\* received before _init_flow_control_params) stays as it is; and a packet
\* whose frames consumed no stream bytes leaves the limit and updates the ack
\* creator
C35_FlowControlAndAck ==
    \A packet \in AckedPackets :
        (ReceiveLoopRuns /\ receive_frames(St, packet.frames).error = nullptr) =>
            IF is_flow_controlled(packet.frames) /\ TotalAfter(packet) > local_limit
            THEN /\ _recv_and_ack(St, packet).error = TransportError("FLOW_CONTROL_ERROR")
                 /\ _recv_and_ack(St, packet).st.local_limit = local_limit
                 /\ _recv_and_ack(St, packet).ack = NoUpdate
            ELSE /\ _recv_and_ack(St, packet).error = nullptr
                 /\ (is_flow_controlled(packet.frames) /\ local_limit # UINT64_MAX)
                       => _recv_and_ack(St, packet).st.local_limit
                              = TotalAfter(packet) + LocalInitialMaxData
                 /\ (~is_flow_controlled(packet.frames) \/ local_limit = UINT64_MAX)
                       => _recv_and_ack(St, packet).st.local_limit = local_limit
                 /\ _recv_and_ack(St, packet).ack = ExpectedUpdate(packet)

\* C35 witness: received stream data has moved the initialized limit forward,
\* and the next packet with stream data would exceed it
C35_Witness ==
    /\ local_offset > 0 /\ local_limit = local_offset + LocalInitialMaxData
    /\ handler = "state_connection_established"
    /\ \E packet \in AckedPackets :
          is_flow_controlled(packet.frames) /\ TotalAfter(packet) > local_limit

\* results of a dequeue that are no error of the connection
QuietResults == {"NOT_READY", "IGNORED", "UNSUPPORTED", "NO_PACKET"}

\* the connection after one iteration of the receive loop of the current state
AfterIteration(res, packet) ==
    IF pc = "handshake_recv"
    THEN handshake_iteration(Step("handshake_recv", nullptr), res, packet)
    ELSE established_iteration(Step("established_recv", nullptr), res, packet)

\* a Handshake packet whose CRYPTO data completes the handshake and which carries
\* a frame the stream manager rejects behind it
LateErrorPackets ==
    {Packet("HANDSHAKE",
            <<Frame("CRYPTO", [tp |-> "tp", fin |-> TRUE]), Frame("STREAM_ERROR", 0)>>,
            LocalCid, PeerCid, TRUE)}

\* what the processing of a dequeued packet returns in the current state
ProcessedPacket(res, packet) ==
    IF pc = "handshake_recv"
    THEN _state_handshake_process_packet(
             dequeue(Step("handshake_recv", nullptr), res, packet), packet)
    ELSE established_process_packet(
             dequeue(Step("established_recv", nullptr), res, packet), packet)

\* C36: in the receive loops of the handshake and established states a dequeue
\* result of FAILED ends the loop with INTERNAL_ERROR and an error returned for
\* a dequeued packet ends it with that error, the error is handed to close()
\* and the connection enters closing; a dequeue result of NOT_READY, IGNORED,
\* UNSUPPORTED or NO_PACKET raises no connection error and leaves the state
\* handler as it is
C36_ErrorsCloseQuietResultsDoNot ==
    /\ pc \in {"handshake_recv", "established_recv"} =>
          \A res \in ResultsOf(recv_queue) :
             \A packet \in PacketsFor(res, {"SUCCESS", "UNSUPPORTED"},
                                      Packets \cup LateErrorPackets) :
                /\ (res = "FAILED") =>
                      /\ AfterIteration(res, packet).pc = "handle_error"
                      /\ AfterIteration(res, packet).error = TransportError("INTERNAL_ERROR")
                /\ (res = "SUCCESS" /\ ProcessedPacket(res, packet).error # nullptr) =>
                      /\ AfterIteration(res, packet).pc = "handle_error"
                      /\ AfterIteration(res, packet).error = ProcessedPacket(res, packet).error
                /\ (res \in QuietResults) =>
                      /\ AfterIteration(res, packet).error = nullptr
                      /\ AfterIteration(res, packet).pc \in {"idle", pc}
                      /\ AfterIteration(res, packet).handler = handler
    /\ (pc = "handle_error" /\ handler \in {"state_handshake", "state_connection_established"}) =>
          _handle_error(St, error).handler = "state_connection_closing"

(***************************************************************************)
(* Migration: the peer completes the handshake announcing two connection    *)
(* ids of its own, then moves to the alternative local id and back.         *)
(***************************************************************************)
MigrationPackets ==
    {Packet("HANDSHAKE", <<Frame("NEW_CONNECTION_ID", 1),
                           Frame("NEW_CONNECTION_ID", MaxCid + 1),
                           Frame("CRYPTO", [tp |-> "tp", fin |-> TRUE])>>,
            LocalCid, PeerCid, TRUE),
     Packet("PROTECTED", <<Frame("PING", 0)>>, LocalAltCid, PeerCid, TRUE),
     Packet("PROTECTED", <<Frame("PATH_RESPONSE", 0)>>, LocalAltCid, PeerCid, TRUE),
     Packet("PROTECTED", <<Frame("PING", 0)>>, LocalCid, PeerCid, TRUE),
     Packet("PROTECTED", <<Frame("PING", 0)>>, LocalCid, PeerCid, FALSE)}

MigrationNext ==
    \/ net_read_io(MaxMigrationPackets)
    \/ WriteReady
    \/ ClosingTimeout
    \/ PathValidationTimeout
    \/ Shutdown
    \/ HandleError
    \/ HandshakeRecv(MigrationPackets)
    \/ EstablishedRecv(MigrationPackets)
    \/ ClosingRecv(MigrationPackets)
    \/ Send(Offers, {0})

MigrationSpec == Init /\ [][MigrationNext]_vars

\* a server in established state is about to dequeue a packet and holds a
\* connection id the peer has announced
ServerWithAltCids ==
    /\ netvc_context = "IN" /\ handler = "state_connection_established"
    /\ pc = "established_recv" /\ recv_queue > 0 /\ remote_alt_cids # <<>>

\* PROTECTED packets whose destination id is not the local id in use
ForeignPackets == {packet \in Packets : packet.type = "PROTECTED" /\ packet.dcid # quic_connection_id}

\* the connection after the migration step for the packet
Migrated(packet) == _state_connection_established_migrate_connection(St, packet)

\* C37: when a server in established state that holds a connection id of the
\* peer receives a PROTECTED packet with a destination id other than its local
\* id and the alt-connection manager accepts that id, the local id becomes the
\* destination id, the peer id becomes the front of remote_alt_cids, which is
\* removed, and the path validation starts with a timeout scheduled by this
\* step; when the manager refuses, nothing changes
C37_ServerFollowsMigration ==
    ServerWithAltCids =>
        \A packet \in ForeignPackets :
            IF packet.ok
            THEN /\ Migrated(packet).quic_connection_id = packet.dcid
                 /\ Migrated(packet).peer_quic_connection_id = Head(remote_alt_cids)
                 /\ Migrated(packet).remote_alt_cids = Tail(remote_alt_cids)
                 /\ Migrated(packet).path_validator = "validating"
                 /\ Migrated(packet).path_validation_timeout = "pending"
                 /\ path_validation_timeout = "null"
            ELSE Migrated(packet) = ink_assert(St, hs_completed)

\* the migration step for the packet reaches _alt_con_manager->migrate_to
ConsultsMigrateTo(packet) ==
    /\ packet.type = "PROTECTED" /\ packet.dcid # quic_connection_id
    /\ ~(netvc_context = "IN" /\ remote_alt_cids = <<>>)

\* the client's migration exercise reaches _alt_con_manager->will_generate_frame
ConsultsWillGenerateFrame(packet) ==
    /\ packet.type = "PROTECTED" /\ netvc_context = "OUT"
    /\ cm_exercise /\ ~connection_migration_initiated
    /\ hs_remote_tp # "tp_disable_migration" /\ remote_alt_cids # <<>>

\* C38: whenever the processing of a packet in established state consults the
\* alt-connection manager (migrate_to for a PROTECTED packet with a foreign
\* destination id, will_generate_frame in the client's migration exercise), a
\* manager has been installed for the connection
C38_ManagerInstalledWhenConsulted ==
    (pc = "established_recv" /\ recv_queue > 0) =>
        \A packet \in Packets :
            (ConsultsMigrateTo(packet) \/ ConsultsWillGenerateFrame(packet)) => alt_con_manager

\* C39: the handle _packet_write_ready tells whether a PACKET_WRITE_READY
\* event is scheduled.  A scheduled event leaves the scheduler only by being
\* delivered or by being cancelled at shutdown (so that a second one is never
\* scheduled beside it), the delivery of a PACKET_WRITE_READY event fails no
\* assertion (the event is the one the handle records), and between events a
\* connection in handshake or established state has an event scheduled
C39_OneWriteReadyEvent ==
    /\ []((pc = "idle" /\ handler \in {"state_handshake", "state_connection_established"})
             => packet_write_ready = "pending")
    /\ [][(op'.name = "PACKET_WRITE_READY") => (assert_failed' = assert_failed)]_vars
    /\ [][(packet_write_ready = "pending" /\ packet_write_ready' # "pending")
             => op'.name \in {"PACKET_WRITE_READY", "SHUTDOWN"}]_vars

\* C39 witness: an established connection has handled a PACKET_WRITE_READY
\* event to the end of its send loop and has scheduled the next event
C39_Witness ==
    /\ handler = "state_connection_established" /\ pc = "idle" /\ op.name = "send"
    /\ packet_write_ready = "pending" /\ ~assert_failed

\* the notification that starts the application of this connection
StartEvent == IF netvc_context = "IN" THEN "NET_EVENT_ACCEPT" ELSE "NET_EVENT_OPEN"

\* C40: the application is notified at most once in the life of a connection,
\* with ACCEPT on a server and OPEN on a client, whichever of the 0-RTT
\* processing, the handshake completion and the state switches calls
\* _start_application; a server without an endpoint for the negotiated
\* protocol delivers no ACCEPT and has raised a connection error once the
\* start was attempted
C40_ApplicationStartedOnce ==
    /\ Len(app_events) <= 1
    /\ \A i \in 1 .. Len(app_events) : app_events[i] = StartEvent
    /\ (app_events # <<>>) => application_started
    /\ (netvc_context = "IN" /\ ~endpoint) => app_events = <<>>
    /\ (netvc_context = "IN" /\ ~endpoint /\ application_started) =>
          (left_open /\ (connection_error # nullptr \/ the_final_packet))

\* C40 witness: a server whose application was started by a 0-RTT packet has
\* completed the handshake since and has notified the application once
C40_Witness ==
    /\ netvc_context = "IN" /\ handler = "state_connection_established"
    /\ app_events = <<"NET_EVENT_ACCEPT">>
    /\ op.name = "handshake_recv" /\ chip.handler = "state_handshake" /\ chip.ret = 0
    /\ local_offset > 0

====
